---- MODULE Spec2Model ----
(***************************************************************************)
(* Model of the mcp-time-travel checkpoint engine: the shadow git          *)
(* repository driven by CheckpointTracker, the metadata.json index kept by *)
(* CheckpointMetadataStore, and the tools createCheckpoint,                *)
(* rollbackCheckpoint and showDiff that compose them.                      *)
(*                                                                         *)
(* A tree maps every trackable path to its content, or to NoFile when the  *)
(* path is absent.  A commit hash is modelled by the position of the       *)
(* commit in the shadow repository, a checkpoint id by a fresh number.     *)
(* Each tool call is one atomic step; the live directory changes between   *)
(* tool calls through ExternalChange.                                      *)
(***************************************************************************)
EXTENDS Integers, Sequences, FiniteSets, TLC

(* ---------------------------- bounds ----------------------------------- *)

\* number of commits the shadow repository may hold
MaxCommits == 2

(* ---------------------------- helpers ---------------------------------- *)

Min(a, b) == IF a <= b THEN a ELSE b

RECURSIVE SumOver(_, _)
SumOver(S, f) ==
  IF S = {} THEN 0
  ELSE LET x == CHOOSE y \in S : TRUE IN f[x] + SumOver(S \ {x}, f)

(* ---------------------------- workspace path -------------------------- *)
(* A path is the sequence of the segments between its slashes; "" is the  *)
(* segment of a doubled or trailing slash.                                 *)

\* segments a configured path may have
MaxDepth == 3

Segments == {"u", "w", "Desktop", "Documents", "Downloads", ".", "..", ""}

\* charCodeAt over a segment
CodesOf(seg) ==
  CASE seg = "u" -> <<117>>
    [] seg = "w" -> <<119>>
    [] seg = "Desktop" -> <<68, 101, 115, 107, 116, 111, 112>>
    [] seg = "Documents" -> <<68, 111, 99, 117, 109, 101, 110, 116, 115>>
    [] seg = "Downloads" -> <<68, 111, 119, 110, 108, 111, 97, 100, 115>>
    [] seg = "." -> <<46>>
    [] seg = ".." -> <<46, 46>>
    [] OTHER -> <<>>

\* the code units of an absolute path: "/" for the root, "/seg/seg" otherwise
RECURSIVE JoinCodes(_)
JoinCodes(segs) ==
  IF segs = <<>> THEN <<>>
  ELSE <<47>> \o CodesOf(Head(segs)) \o JoinCodes(Tail(segs))

PathString(segs) == IF segs = <<>> THEN <<47>> ELSE JoinCodes(segs)

\* path.resolve of an absolute path: "" and "." are dropped, ".." drops the
\* segment before it
RECURSIVE resolveOnto(_, _)
resolveOnto(done, segs) ==
  IF segs = <<>> THEN done
  ELSE LET seg == Head(segs)
       IN IF seg = "" \/ seg = "."
          THEN resolveOnto(done, Tail(segs))
          ELSE IF seg = ".."
          THEN resolveOnto(IF done = <<>> THEN <<>>
                           ELSE SubSeq(done, 1, Len(done) - 1), Tail(segs))
          ELSE resolveOnto(Append(done, seg), Tail(segs))

resolve(segs) == resolveOnto(<<>>, segs)

\* os.homedir()
homedir == <<"u">>

\* homedir, Desktop, Documents, Downloads
protectedPaths ==
  {homedir, Append(homedir, "Desktop"), Append(homedir, "Documents"),
   Append(homedir, "Downloads")}

\* half the width of the 32-bit hash: a hash is [hi, lo], its value
\* hi * 2^16 + lo
Half == 65536

\* (hash * 31 + code) >>> 0
hashStep(hash, code) ==
  LET low == hash.lo * 31 + code
  IN [hi |-> (hash.hi * 31 + (low \div Half)) % Half, lo |-> low % Half]

RECURSIVE hashCodes(_, _)
hashCodes(hash, codes) ==
  IF codes = <<>> THEN hash
  ELSE hashCodes(hashStep(hash, Head(codes)), Tail(codes))

\* BigInt(hash).toString(): the decimal digits, most significant first
RECURSIVE toDecimal(_)
toDecimal(hash) ==
  IF hash.hi = 0 /\ hash.lo < 10 THEN <<hash.lo>>
  ELSE LET rest == (hash.hi % 10) * Half + hash.lo
       IN Append(toDecimal([hi |-> hash.hi \div 10, lo |-> rest \div 10]),
                 rest % 10)

\* the length slice(0, 13) cuts the digits to
IdentityWidth == 13

\* hashWorkingDir(workingDir) over the code units of a non-empty string
hashWorkingDir(codes) ==
  LET digits == toDecimal(hashCodes([hi |-> 0, lo |-> 0], codes))
  IN SubSeq(digits, 1, Min(IdentityWidth, Len(digits)))

(* ---------------------------- exclusion -------------------------------- *)
(* A string is taken apart into its characters where the code looks into   *)
(* it.                                                                      *)

\* the characters of the file names and patterns used here
CharsOf(str) ==
  CASE str = "a.txt" -> <<"a", ".", "t", "x", "t">>
    [] str = "b.txt" -> <<"b", ".", "t", "x", "t">>
    [] str = "node_modules/x.js" -> <<"n", "o", "d", "e", "_", "m", "o", "d", "u", "l", "e", "s", "/", "x", ".", "j", "s">>
    [] str = "debug.log" -> <<"d", "e", "b", "u", "g", ".", "l", "o", "g">>
    [] str = "metadata.json" -> <<"m", "e", "t", "a", "d", "a", "t", "a", ".", "j", "s", "o", "n">>
    [] str = ".mcp-checkpoint/x" -> <<".", "m", "c", "p", "-", "c", "h", "e", "c", "k", "p", "o", "i", "n", "t", "/", "x">>
    [] str = "node_modules/" -> <<"n", "o", "d", "e", "_", "m", "o", "d", "u", "l", "e", "s", "/">>
    [] str = "*.log" -> <<"*", ".", "l", "o", "g">>
    [] str = ".env" -> <<".", "e", "n", "v">>
    [] str = "npm-debug.log*" -> <<"n", "p", "m", "-", "d", "e", "b", "u", "g", ".", "l", "o", "g", "*">>
    [] str = ".mcp-checkpoint" -> <<".", "m", "c", "p", "-", "c", "h", "e", "c", "k", "p", "o", "i", "n", "t">>
    [] str = ".DS_Store" -> <<".", "D", "S", "_", "S", "t", "o", "r", "e">>
    [] str = "._" -> <<".", "_">>
    [] OTHER -> <<>>

\* the decimal digits of an identity as characters
DigitChars(digits) ==
  [i \in 1..Len(digits) |->
     <<"0", "1", "2", "3", "4", "5", "6", "7", "8", "9">>[digits[i] + 1]]

\* str.startsWith(part)
startsWith(str, part) ==
  Len(part) <= Len(str) /\ SubSeq(str, 1, Len(part)) = part

\* str.endsWith(part)
endsWith(str, part) ==
  Len(part) <= Len(str) /\ SubSeq(str, Len(str) - Len(part) + 1, Len(str)) = part

\* str.includes(part)
includes(str, part) ==
  \E i \in 0..(Len(str) - Len(part)) : SubSeq(str, i + 1, i + Len(part)) = part

\* file.split('/').pop() || file
baseName(file) ==
  LET slashes == {i \in 1..Len(file) : file[i] = "/"}
      after == IF slashes = {} THEN file
               ELSE SubSeq(file, (CHOOSE i \in slashes : \A j \in slashes : j <= i) + 1,
                           Len(file))
  IN IF after = <<>> THEN file ELSE after

\* pattern.replace(/\*/g, '.*')
RECURSIVE starsToRegex(_)
starsToRegex(pattern) ==
  IF pattern = <<>> THEN <<>>
  ELSE IF Head(pattern) = "*" THEN <<".", "*">> \o starsToRegex(Tail(pattern))
  ELSE <<Head(pattern)>> \o starsToRegex(Tail(pattern))

\* the regular expression matches a prefix of the text: a character stands
\* for itself, "." for any character, and a "*" after either for any number
\* of them
RECURSIVE regexMatchesHere(_, _)
regexMatchesHere(regex, text) ==
  IF regex = <<>> THEN TRUE
  ELSE IF Len(regex) >= 2 /\ regex[2] = "*"
  THEN \E k \in 0..Len(text) :
         /\ \A i \in 1..k : regex[1] = "." \/ regex[1] = text[i]
         /\ regexMatchesHere(SubSeq(regex, 3, Len(regex)),
                             SubSeq(text, k + 1, Len(text)))
  ELSE /\ text # <<>>
       /\ regex[1] = "." \/ regex[1] = Head(text)
       /\ regexMatchesHere(Tail(regex), Tail(text))

\* new RegExp(regex).test(text): a match anywhere in the text
regexTest(regex, text) ==
  \E i \in 0..Len(text) : regexMatchesHere(regex, SubSeq(text, i + 1, Len(text)))

\* new RegExp(regex) does not throw: of the characters the patterns here are
\* made of, only "(" and ")" can make it throw, when they do not pair up
RECURSIVE groupsClose(_, _)
groupsClose(regex, open) ==
  IF regex = <<>> THEN open = 0
  ELSE IF Head(regex) = "(" THEN groupsClose(Tail(regex), open + 1)
  ELSE IF Head(regex) = ")" THEN open > 0 /\ groupsClose(Tail(regex), open - 1)
  ELSE groupsClose(Tail(regex), open)

regexCompiles(regex) == groupsClose(regex, 0)

\* faulty variant: a directory pattern matches the directory itself only,
\* not the files under it
matchesPattern_DirectoryItself(file, pattern) ==
  IF endsWith(pattern, <<"/">>)
  THEN file = SubSeq(pattern, 1, Len(pattern) - 1)
  ELSE IF startsWith(pattern, <<"*", ".">>)
  THEN endsWith(file, Tail(pattern))
  ELSE IF includes(pattern, <<"*">>)
  THEN IF regexCompiles(starsToRegex(pattern))
       THEN regexTest(starsToRegex(pattern), file)
       ELSE file = pattern
  ELSE file = pattern \/ baseName(file) = pattern

\* faulty variant: a plain pattern is compared with the full path only
matchesPattern_FullPathOnly(file, pattern) ==
  IF endsWith(pattern, <<"/">>)
  THEN LET dirPattern == SubSeq(pattern, 1, Len(pattern) - 1)
       IN startsWith(file, dirPattern \o <<"/">>) \/ file = dirPattern
  ELSE IF startsWith(pattern, <<"*", ".">>)
  THEN endsWith(file, Tail(pattern))
  ELSE IF includes(pattern, <<"*">>)
  THEN IF regexCompiles(starsToRegex(pattern))
       THEN regexTest(starsToRegex(pattern), file)
       ELSE file = pattern
  ELSE file = pattern

\* matchesPattern(file, pattern)
matchesPattern(file, pattern) ==
  IF endsWith(pattern, <<"/">>)
  THEN LET dirPattern == SubSeq(pattern, 1, Len(pattern) - 1)
       IN startsWith(file, dirPattern \o <<"/">>) \/ file = dirPattern
  ELSE IF startsWith(pattern, <<"*", ".">>)
  THEN endsWith(file, Tail(pattern))
  ELSE IF includes(pattern, <<"*">>)
  THEN IF regexCompiles(starsToRegex(pattern))
       THEN regexTest(starsToRegex(pattern), file)
       ELSE file = pattern
  ELSE file = pattern \/ baseName(file) = pattern

\* for (const pattern of exclusionSet) { if (matchesPattern) { ...; break } }:
\* whether the file is excluded, and the place of the pattern the debug log
\* names, 0 when no pattern matched
applyPatterns(file, exclusionSeq) ==
  LET hits == {i \in 1..Len(exclusionSeq) : matchesPattern(file, exclusionSeq[i])}
  IN IF hits = {} THEN [shouldExclude |-> FALSE, by |-> 0]
     ELSE [shouldExclude |-> TRUE,
           by |-> CHOOSE i \in hits : \A j \in 1..(i - 1) : j \notin hits]

\* getDefaultExclusions(lfsPatterns): a dependency directory, a log
\* extension, a secret file name, a wildcard name
DefaultExclusions == {"node_modules/", "*.log", ".env", "npm-debug.log*"}

\* faulty variant: the exclusion patterns alone decide
shouldExclude_PatternsOnly(file, cwdHash, exclusionSet) ==
  \E pattern \in exclusionSet : matchesPattern(file, CharsOf(pattern))

\* the filter of getActualChangedFiles: the engine's own files first, then
\* system files, then the exclusion patterns
shouldExclude(file, cwdHash, exclusionSet) ==
  IF \/ includes(file, CharsOf(".mcp-checkpoint"))
     \/ startsWith(file, CharsOf(".mcp-checkpoint"))
     \/ includes(file, cwdHash)
     \/ includes(file, CharsOf("metadata.json"))
  THEN TRUE
  ELSE IF \/ baseName(file) = CharsOf("metadata.json")
          \/ baseName(file) = CharsOf(".DS_Store")
          \/ startsWith(baseName(file), CharsOf("._"))
  THEN TRUE
  ELSE \E pattern \in exclusionSet : matchesPattern(file, CharsOf(pattern))

\* the identity of the workspace the tools below work on
WorkspaceHash == hashWorkingDir(PathString(<<"w">>))

\* isExcluded(relativePath): the exclusion filter on a path of the workspace
isExcluded(p) ==
  shouldExclude(CharsOf(p), DigitChars(WorkspaceHash), DefaultExclusions)

(* ---------------------------- universe --------------------------------- *)

\* files the live directory may hold
Paths ==
  {"a.txt", "b.txt", "node_modules/x.js", "debug.log", "metadata.json",
   ".mcp-checkpoint/x"}

\* files of the live directory that the exclusion filter lets through
EligiblePaths == {p \in Paths : ~isExcluded(p)}

\* files the exclusion filter keeps out of staging
ExcludedPaths == {p \in Paths : isExcluded(p)}

NoFile == "<none>"

Content == {"hello", "world"}

Cell == Content \cup {NoFile}

Trees == [EligiblePaths -> Cell]

EmptyTree == [p \in EligiblePaths |-> NoFile]

WorkTrees == [Paths -> Cell]

\* what the environment writes where: a.txt is written with either content
\* and b.txt with one, so that a.txt can be modified and a file can appear
\* under a second path with the content another path had; the excluded file
\* is there throughout
CellOf(p) ==
  IF p = "a.txt" THEN Cell
  ELSE IF p \in ExcludedPaths THEN {"hello"}
  ELSE {NoFile, "hello"}

\* faults the environment can inject into one tool call
CreateFaults == {"none", "workspace", "backend", "commit", "diff"}

\* "reset" is a git command of the tracker failing, the count or the reset
RollbackFaults == {"none", "workspace", "backend", "reset"}

\* checkpoint ids a caller may pass: every id that can be issued, and 0,
\* which is never issued
IdSpace == 0..MaxCommits

\* what find() and metadata[0] give when there is no such record
NoRecord == [id |-> 0, timestamp |-> 0, commitHash |-> 0, filesChanged |-> 0]

\* the files a tree holds
FilesOf(t) == {p \in EligiblePaths : t[p] # NoFile}

(* ---------------------------- shadow git ------------------------------- *)

\* git add . : the index becomes the eligible part of the live directory
addCheckpointFiles(wt) == [p \in EligiblePaths |-> wt[p]]

\* what `git diff <commit>` sees on the working-tree side: a path the index
\* does not hold is absent, every other path has its live content
WorkTreeSide(index, wt) ==
  [p \in EligiblePaths |-> IF index[p] = NoFile THEN NoFile ELSE wt[p]]

DifferingPaths(t1, t2) == {p \in EligiblePaths : t1[p] # t2[p]}

DeletedPaths(t1, t2) == {p \in EligiblePaths : t1[p] # NoFile /\ t2[p] = NoFile}

AddedPaths(t1, t2) == {p \in EligiblePaths : t1[p] = NoFile /\ t2[p] # NoFile}

\* git pairs a deleted path with an added path of the same content and lists
\* the pair as one rename entry (diff.renames is on by default)
RenamePairs(t1, t2) ==
  SumOver(Content,
          [c \in Content |->
             Min(Cardinality({p \in DeletedPaths(t1, t2) : t1[p] = c}),
                 Cardinality({p \in AddedPaths(t1, t2) : t2[p] = c}))])

\* diffSummary(...).files.length
diffSummaryFiles(t1, t2) ==
  Cardinality(DifferingPaths(t1, t2)) - RenamePairs(t1, t2)

\* git reset --hard <commit>: every path of the target gets the target's
\* content, a path the index tracks and the target lacks is removed, any
\* other file of the live directory is left alone
resetHardWorkTree(target, index, wt) ==
  [p \in Paths |->
     IF p \in EligiblePaths /\ target[p] # NoFile THEN target[p]
     ELSE IF p \in EligiblePaths /\ index[p] # NoFile THEN NoFile
     ELSE wt[p]]

(* ---------------------------- metadata.json ---------------------------- *)

\* faulty variant: the saved list holds the new record only
addCheckpoint_Overwrite(metadata, checkpoint) == <<checkpoint>>

\* metadata.push(checkpoint) followed by saveMetadata
addCheckpoint(metadata, checkpoint) == Append(metadata, checkpoint)

\* faulty variant: an id that is not found gives the last record of the list
getCheckpoint_Fallback(metadata, checkpointId) ==
  IF \E i \in 1..Len(metadata) : metadata[i].id = checkpointId
  THEN LET i == CHOOSE j \in 1..Len(metadata) :
                  /\ metadata[j].id = checkpointId
                  /\ \A k \in 1..(j - 1) : metadata[k].id # checkpointId
       IN metadata[i]
  ELSE IF metadata = <<>> THEN NoRecord
  ELSE metadata[Len(metadata)]

\* metadata.find(cp => cp.id === checkpointId)
getCheckpoint(metadata, checkpointId) ==
  IF \E i \in 1..Len(metadata) : metadata[i].id = checkpointId
  THEN LET i == CHOOSE j \in 1..Len(metadata) :
                  /\ metadata[j].id = checkpointId
                  /\ \A k \in 1..(j - 1) : metadata[k].id # checkpointId
       IN metadata[i]
  ELSE NoRecord

\* faulty variant: a record goes in front of the records it ties with
RECURSIVE InsertDesc_TiesFirst(_, _)
InsertDesc_TiesFirst(sorted, r) ==
  IF sorted = <<>> THEN <<r>>
  ELSE IF r.timestamp >= Head(sorted).timestamp THEN <<r>> \o sorted
  ELSE <<Head(sorted)>> \o InsertDesc_TiesFirst(Tail(sorted), r)

\* one step of a stable insertion sort, newest timestamp first: r goes behind
\* every record that does not compare after it
RECURSIVE InsertDesc(_, _)
InsertDesc(sorted, r) ==
  IF sorted = <<>> THEN <<r>>
  ELSE IF r.timestamp > Head(sorted).timestamp THEN <<r>> \o sorted
  ELSE <<Head(sorted)>> \o InsertDesc(Tail(sorted), r)

RECURSIVE SortDesc(_, _)
SortDesc(done, rest) ==
  IF rest = <<>> THEN done ELSE SortDesc(InsertDesc(done, Head(rest)), Tail(rest))

\* metadata.sort((a, b) => time(b) - time(a))
getAllCheckpoints(metadata) == SortDesc(<<>>, metadata)

\* faulty variant: the last record of the sorted list, the oldest
getLatestCheckpoint_Oldest(metadata) ==
  IF metadata = <<>> THEN NoRecord
  ELSE getAllCheckpoints(metadata)[Len(metadata)]

\* getAllCheckpoints()[0]
getLatestCheckpoint(metadata) ==
  IF metadata = <<>> THEN NoRecord ELSE Head(getAllCheckpoints(metadata))

(* ---------------------------- CheckpointTracker ------------------------ *)
(* A state S is the record [wt, index, commits, head, metadata, clock].    *)

\* gitOperations.addCheckpointFiles(git) on the tracker's repository
stage(S) == [S EXCEPT !.index = addCheckpointFiles(S.wt)]

\* faulty variant: git commit without --allow-empty, which makes no commit
\* when the staged tree is the tree of HEAD
commit_NoEmpty(S) ==
  LET s1 == stage(S)
  IN IF S.head # 0 /\ s1.index = S.commits[S.head] THEN s1
     ELSE [s1 EXCEPT !.commits = Append(S.commits, s1.index),
                     !.head = Len(S.commits) + 1]

\* commit(): stage, then git commit --allow-empty; the new commit is HEAD
commit(S) ==
  LET s1 == stage(S)
  IN [s1 EXCEPT !.commits = Append(S.commits, s1.index),
                !.head = Len(S.commits) + 1]

\* faulty variant: a deleted and an added path count as two files, as
\* with git diff --no-renames
getDiffCount_NoRenames(S, lhsHash, rhsHash) ==
  Cardinality(DifferingPaths(S.commits[lhsHash],
                             IF rhsHash = 0 THEN WorkTreeSide(S.index, S.wt)
                             ELSE S.commits[rhsHash]))

\* getDiffCount(lhsHash, rhsHash?) after its staging; rhsHash 0 is the
\* omitted argument, which compares against the working tree
getDiffCount(S, lhsHash, rhsHash) ==
  diffSummaryFiles(S.commits[lhsHash],
                   IF rhsHash = 0 THEN WorkTreeSide(S.index, S.wt)
                   ELSE S.commits[rhsHash])

\* getDiffSet(lhsHash, rhsHash?).length after its staging: one entry per
\* file of the same diffSummary
getDiffSet(S, lhsHash, rhsHash) ==
  diffSummaryFiles(S.commits[lhsHash],
                   IF rhsHash = 0 THEN WorkTreeSide(S.index, S.wt)
                   ELSE S.commits[rhsHash])

\* the deleted and added paths git pairs as renames: as many pairs of equal
\* content as there are, no path in two pairs
RenameMatching(t1, t2) ==
  CHOOSE M \in SUBSET (DeletedPaths(t1, t2) \X AddedPaths(t1, t2)) :
    /\ \A m \in M : t1[m[1]] = t2[m[2]]
    /\ \A m \in M, n \in M : (m[1] = n[1] \/ m[2] = n[2]) => m = n
    /\ Cardinality(M) = RenamePairs(t1, t2)

\* diffSummary(...).files: the name of each entry, <<path>> for a path that
\* differs and <<old, new>> for a rename, which git prints as "old => new"
diffSummaryEntries(t1, t2) ==
  LET M == RenameMatching(t1, t2)
      paired == {m[1] : m \in M} \cup {m[2] : m \in M}
  IN {<<p>> : p \in DifferingPaths(t1, t2) \ paired} \cup M

\* git.show([hash + ":" + filePath]) with its catch: the content of the path
\* in the commit, "" when the commit has no such path
gitShow(tree, filePath) ==
  IF Len(filePath) = 1 /\ tree[filePath[1]] # NoFile THEN tree[filePath[1]] ELSE ""

\* fs.readFile(absolutePath, "utf8") with its catch: the content of the live
\* file, "" when there is no such file
readFile(wt, filePath) ==
  IF Len(filePath) = 1 /\ wt[filePath[1]] # NoFile THEN wt[filePath[1]] ELSE ""

\* the array getDiffSet(lhsHash, rhsHash?) returns, after its staging: one
\* element per entry of the diffSummary, with the content on either side
getDiffSetEntries(S, lhsHash, rhsHash) ==
  LET files == diffSummaryEntries(S.commits[lhsHash],
                                  IF rhsHash = 0 THEN WorkTreeSide(S.index, S.wt)
                                  ELSE S.commits[rhsHash])
  IN {[relativePath |-> filePath,
       before |-> gitShow(S.commits[lhsHash], filePath),
       after |-> IF rhsHash = 0 THEN readFile(S.wt, filePath)
                 ELSE gitShow(S.commits[rhsHash], filePath)] : filePath \in files}

\* faulty variant: the files are reset to the commit HEAD was at, and HEAD
\* then moves to commitHash
resetHead_StaleHead(S, commitHash) ==
  [S EXCEPT !.wt = resetHardWorkTree(S.commits[S.head], S.index, S.wt),
            !.index = S.commits[S.head],
            !.head = commitHash]

\* resetHead(commitHash): git reset --hard
resetHead(S, commitHash) ==
  [S EXCEPT !.wt = resetHardWorkTree(S.commits[commitHash], S.index, S.wt),
            !.index = S.commits[commitHash],
            !.head = commitHash]

(* ---------------------------- tools ------------------------------------ *)
(* A tool call gives [state, res]: the state it leaves and what the caller *)
(* gets, res.outcome "returned" or "threw".                                *)

Threw(S, err) ==
  [state |-> S,
   res |-> [outcome |-> "threw", success |-> FALSE, count |-> 0, error |-> err,
            checkpointId |-> 0]]

Returned(S, ok, n, err, id) ==
  [state |-> S,
   res |-> [outcome |-> "returned", success |-> ok, count |-> n, error |-> err,
            checkpointId |-> id]]

\* generateId(): an id no record carries yet
generateId(S) == Len(S.commits)

\* faulty variant: the record is appended right after the commit, before the
\* count that may fail
createCheckpoint_RecordsFirst(S, fault) ==
  IF fault = "workspace" THEN Threw(S, "InvalidWorkspace")
  ELSE IF fault = "backend" THEN Threw(S, "BackendUnavailable")
  ELSE IF fault = "commit" THEN Threw(stage(S), "GitFailed")
  ELSE
    LET s1 == [commit(S) EXCEPT !.clock = S.clock + 1]
        latestCheckpoint == getLatestCheckpoint(s1.metadata)
        filesChanged ==
          IF latestCheckpoint # NoRecord
          THEN getDiffCount(s1, latestCheckpoint.commitHash, 0)
          ELSE 1
        s2 == [s1 EXCEPT !.metadata =
                 addCheckpoint(s1.metadata,
                               [id |-> generateId(s1),
                                timestamp |-> s1.clock,
                                commitHash |-> s1.head,
                                filesChanged |-> filesChanged])]
    IN IF fault = "diff" THEN Threw(s2, "GitFailed")
       ELSE Returned(s2, TRUE, filesChanged, "", generateId(s1))

\* faulty variant: the record is appended before the commit is made, so a
\* commit that fails leaves the record behind
createCheckpoint_RecordBeforeCommit(S, fault) ==
  IF fault = "workspace" THEN Threw(S, "InvalidWorkspace")
  ELSE IF fault = "backend" THEN Threw(S, "BackendUnavailable")
  ELSE IF fault = "commit"
  THEN Threw([stage(S) EXCEPT !.metadata =
                addCheckpoint(S.metadata,
                              [id |-> Len(S.commits) + 1,
                               timestamp |-> S.clock + 1,
                               commitHash |-> Len(S.commits) + 1,
                               filesChanged |-> 0])],
             "GitFailed")
  ELSE
    LET s1 == [commit(S) EXCEPT !.clock = S.clock + 1]
        latestCheckpoint == getLatestCheckpoint(s1.metadata)
        filesChanged ==
          IF latestCheckpoint # NoRecord
          THEN getDiffCount(s1, latestCheckpoint.commitHash, 0)
          ELSE 1
    IN IF fault = "diff" THEN Threw(s1, "GitFailed")
       ELSE Returned([s1 EXCEPT !.metadata =
                        addCheckpoint(s1.metadata,
                                      [id |-> generateId(s1),
                                       timestamp |-> s1.clock,
                                       commitHash |-> s1.head,
                                       filesChanged |-> filesChanged])],
                     TRUE, filesChanged, "", generateId(s1))

\* faulty variant: the record carries the reading the clock had before the
\* call, the answer the reading taken in the call
createCheckpoint_StaleTimestamp(S, fault) ==
  IF fault = "workspace" THEN Threw(S, "InvalidWorkspace")
  ELSE IF fault = "backend" THEN Threw(S, "BackendUnavailable")
  ELSE IF fault = "commit" THEN Threw(stage(S), "GitFailed")
  ELSE
    LET s1 == [commit(S) EXCEPT !.clock = S.clock + 1]
        latestCheckpoint == getLatestCheckpoint(s1.metadata)
        filesChanged ==
          IF latestCheckpoint # NoRecord
          THEN getDiffCount(s1, latestCheckpoint.commitHash, 0)
          ELSE 1
        out == Returned([s1 EXCEPT !.metadata =
                           addCheckpoint(s1.metadata,
                                         [id |-> generateId(s1),
                                          timestamp |-> S.clock,
                                          commitHash |-> s1.head,
                                          filesChanged |-> filesChanged])],
                        TRUE, filesChanged, "", generateId(s1))
    IN IF fault = "diff" THEN Threw(s1, "GitFailed")
       ELSE [state |-> out.state, res |-> out.res,
             result |-> [checkpointId |-> generateId(s1),
                         timestamp |-> s1.clock,
                         filesChanged |-> filesChanged,
                         commitHash |-> s1.head]]

\* createCheckpoint(args) under the fault the environment injects; result
\* is the object the call returns
createCheckpoint(S, fault) ==
  IF fault = "workspace" THEN Threw(S, "InvalidWorkspace")
  ELSE IF fault = "backend" THEN Threw(S, "BackendUnavailable")
  ELSE IF fault = "commit" THEN Threw(stage(S), "GitFailed")
  ELSE
    LET s1 == [commit(S) EXCEPT !.clock = S.clock + 1]
        commitHash == s1.head
        checkpointId == generateId(s1)
        timestamp == s1.clock
        latestCheckpoint == getLatestCheckpoint(s1.metadata)
        filesChanged ==
          IF latestCheckpoint # NoRecord
          THEN getDiffCount(s1, latestCheckpoint.commitHash, 0)
          ELSE 1
        out == Returned([s1 EXCEPT !.metadata =
                           addCheckpoint(s1.metadata,
                                         [id |-> checkpointId,
                                          timestamp |-> timestamp,
                                          commitHash |-> commitHash,
                                          filesChanged |-> filesChanged])],
                        TRUE, filesChanged, "", checkpointId)
    IN IF fault = "diff" THEN Threw(s1, "GitFailed")
       ELSE [state |-> out.state, res |-> out.res,
             result |-> [checkpointId |-> checkpointId,
                         timestamp |-> timestamp,
                         filesChanged |-> filesChanged,
                         commitHash |-> commitHash]]

\* rollbackCheckpoint(args) under the fault the environment injects
\* faulty variant: the reset runs only when the count is not 0
rollbackCheckpoint_GatedByCount(S, checkpointId, fault) ==
  IF fault = "workspace" THEN Threw(S, "InvalidWorkspace")
  ELSE
    LET targetCheckpoint == getCheckpoint(S.metadata, checkpointId)
        currentCheckpoint == getLatestCheckpoint(S.metadata)
        counting == currentCheckpoint # NoRecord /\ currentCheckpoint.id # checkpointId
        s1 == IF counting THEN stage(S) ELSE S
        filesRestored ==
          IF counting
          THEN getDiffCount(s1, targetCheckpoint.commitHash, currentCheckpoint.commitHash)
          ELSE 0
    IN IF targetCheckpoint = NoRecord
       THEN Returned(S, FALSE, 0, "CheckpointNotFound", checkpointId)
       ELSE IF fault = "backend"
       THEN Returned(S, FALSE, 0, "BackendUnavailable", checkpointId)
       ELSE IF fault = "reset"
       THEN Returned(s1, FALSE, 0, "GitFailed", checkpointId)
       ELSE Returned(IF filesRestored = 0 THEN s1
                     ELSE resetHead(s1, targetCheckpoint.commitHash),
                     TRUE, filesRestored, "", checkpointId)

rollbackCheckpoint(S, checkpointId, fault) ==
  IF fault = "workspace" THEN Threw(S, "InvalidWorkspace")
  ELSE
    LET targetCheckpoint == getCheckpoint(S.metadata, checkpointId)
        currentCheckpoint == getLatestCheckpoint(S.metadata)
        counting == currentCheckpoint # NoRecord /\ currentCheckpoint.id # checkpointId
        s1 == IF counting THEN stage(S) ELSE S
        filesRestored ==
          IF counting
          THEN getDiffCount(s1, targetCheckpoint.commitHash, currentCheckpoint.commitHash)
          ELSE 0
    IN IF targetCheckpoint = NoRecord
       THEN Returned(S, FALSE, 0, "CheckpointNotFound", checkpointId)
       ELSE IF fault = "backend"
       THEN Returned(S, FALSE, 0, "BackendUnavailable", checkpointId)
       ELSE IF fault = "reset"
       THEN Returned(s1, FALSE, 0, "GitFailed", checkpointId)
       ELSE Returned(resetHead(s1, targetCheckpoint.commitHash),
                     TRUE, filesRestored, "", checkpointId)

\* showDiff(args); toCheckpoint 0 is the omitted argument
\* showDiff: diffData.map(diff => ...), the changeType of each entry taken
\* from the sizes of its two contents
showDiffChanges(diffData) ==
  {[relativePath |-> diff.relativePath,
    changeType |-> IF Len(diff.before) = 0 THEN "added"
                   ELSE IF Len(diff.after) = 0 THEN "deleted"
                   ELSE "modified",
    beforeSize |-> Len(diff.before),
    afterSize |-> Len(diff.after)] : diff \in diffData}

\* faulty variant: the diff checks the from commit out into the live
\* directory
showDiff_ChecksOut(S, fromCheckpoint, toCheckpoint, fault) ==
  IF fault = "workspace" THEN Threw(S, "InvalidWorkspace")
  ELSE
    LET from == getCheckpoint(S.metadata, fromCheckpoint)
        to == IF toCheckpoint = 0 THEN NoRecord
              ELSE getCheckpoint(S.metadata, toCheckpoint)
        s1 == stage(S)
    IN IF from = NoRecord THEN Threw(S, "CheckpointNotFound")
       ELSE IF toCheckpoint # 0 /\ to = NoRecord THEN Threw(S, "CheckpointNotFound")
       ELSE IF fault = "backend" THEN Threw(S, "BackendUnavailable")
       ELSE IF fault = "diff" THEN Threw(s1, "GitFailed")
       ELSE Returned(resetHead(s1, from.commitHash), TRUE,
                     getDiffSet(s1, from.commitHash, to.commitHash),
                     "", fromCheckpoint)

showDiff(S, fromCheckpoint, toCheckpoint, fault) ==
  IF fault = "workspace" THEN Threw(S, "InvalidWorkspace")
  ELSE
    LET from == getCheckpoint(S.metadata, fromCheckpoint)
        to == IF toCheckpoint = 0 THEN NoRecord
              ELSE getCheckpoint(S.metadata, toCheckpoint)
        s1 == stage(S)
    IN IF from = NoRecord THEN Threw(S, "CheckpointNotFound")
       ELSE IF toCheckpoint # 0 /\ to = NoRecord THEN Threw(S, "CheckpointNotFound")
       ELSE IF fault = "backend" THEN Threw(S, "BackendUnavailable")
       ELSE IF fault = "diff" THEN Threw(s1, "GitFailed")
       ELSE Returned(s1, TRUE, getDiffSet(s1, from.commitHash, to.commitHash),
                     "", fromCheckpoint)

\* the limit showTimeline uses when none is given
DefaultLimit == 20

\* showTimeline(args): the newest records first, cut to the limit; limit 0
\* is the omitted argument
showTimeline(metadata, limit) ==
  LET allCheckpoints == getAllCheckpoints(metadata)
      n == IF limit = 0 THEN DefaultLimit ELSE limit
  IN SubSeq(allCheckpoints, 1, Min(n, Len(allCheckpoints)))

\* faulty variant: the first record of the file as stored, the oldest
checkpointStatus_StoredOrder(metadata) ==
  LET allCheckpoints == metadata
  IN [currentCheckpoint |->
        IF allCheckpoints # <<>>
        THEN <<allCheckpoints[1].id, allCheckpoints[1].timestamp>>
        ELSE <<>>,
      totalCheckpoints |-> Len(allCheckpoints)]

\* checkpointStatus(args): currentCheckpoint is the text "<id> (<time>)",
\* kept as its two parts, and <<>> when it is undefined
checkpointStatus(metadata) ==
  LET allCheckpoints == getAllCheckpoints(metadata)
  IN [currentCheckpoint |->
        IF allCheckpoints # <<>>
        THEN <<allCheckpoints[1].id, allCheckpoints[1].timestamp>>
        ELSE <<>>,
      totalCheckpoints |-> Len(allCheckpoints)]

\* args.limit when the request gives no limit
Omitted == -1

\* showTimeline(args) for the limit the request gives or omits: args.limit
\* || 20 takes the default for an absent limit and for 0 alike
showTimelineArgs(metadata, argsLimit) ==
  showTimeline(metadata, IF argsLimit = Omitted THEN 0 ELSE argsLimit)

(* ---------------------------- state machine ---------------------------- *)

VARIABLES wt, index, commits, head, metadata, clock, last, procs, torn, listed,
          config, storage, churn, userRepo, preview, reply, filter, stores

vars == <<wt, index, commits, head, metadata, clock, last, procs, torn, listed,
    config, storage, churn, userRepo, preview, reply, filter, stores>>

\* the createCheckpoint calls that may run at the same time
Procs == {"p1", "p2"}

\* a call that is not running
IdleProc == [pc |-> "idle", loaded |-> <<>>, checkpoint |-> NoRecord]

\* a storage root with nothing under checkpoints/
NoStorage == [dirs |-> {}, repos |-> {}, indexes |-> {}]

\* what the tools leave alone when they run one at a time on a whole index
\* file
others == <<procs, torn, listed, config, storage, churn, userRepo, preview, reply, filter, stores>>

\* no tool call has been answered
NoReply == [kind |-> "none", tool |-> "", error |-> ""]

\* no file is being matched against exclusion patterns
NoFilter == [file |-> <<>>, patterns |-> <<>>, out |-> "pending", by |-> 0]

\* no file under the checkpoints/ directory of the storage root
NoStores == {}

\* no content is being previewed
NoPreview == [shape |-> [lines |-> 0, width |-> 0, controls |-> 0, nul |-> FALSE],
              out |-> <<"pending">>]

\* the user's own repository in the workspace directory, with no commit yet
NoUserCommit == [index |-> EmptyTree, commits |-> <<>>, head |-> 0]

\* nothing has happened to the files staging leaves out
NoChurn == [kinds |-> {}, sealed |-> FALSE]

OthersIdle ==
  /\ procs = [p \in Procs |-> IdleProc]
  /\ torn = FALSE
  /\ listed = <<>>
  /\ config = [workspacePath |-> <<"w">>, accessible |-> TRUE]
  /\ storage = NoStorage
  /\ churn = NoChurn
  /\ userRepo = NoUserCommit
  /\ preview = NoPreview
  /\ reply = NoReply
  /\ filter = NoFilter
  /\ stores = NoStores

\* the program state as the record the operators above work on
Now ==
  [wt |-> wt, index |-> index, commits |-> commits, head |-> head,
   metadata |-> metadata, clock |-> clock]

Moves(S) ==
  /\ wt' = S.wt
  /\ index' = S.index
  /\ commits' = S.commits
  /\ head' = S.head
  /\ metadata' = S.metadata
  /\ clock' = S.clock

Becomes(S) ==
  /\ Moves(S)
  /\ UNCHANGED others

\* the ids the records of the index carry
IdsIn(md) == {md[i].id : i \in 1..Len(md)}

\* what the last step was: the tool, how it ended, and whether it repeats
\* the successful call before it (a second createCheckpoint in a row, a
\* second rollbackCheckpoint in a row to the same checkpoint)
Did(op, r, again) ==
  [op |-> op, ok |-> r.res.success, outcome |-> r.res.outcome,
   error |-> r.res.error,
   repeat |-> r.res.success /\ last.ok /\ last.op = op /\ again]

Init ==
  /\ wt \in {w \in WorkTrees : \A p \in Paths : w[p] \in CellOf(p)}
  /\ index = EmptyTree
  /\ commits = <<>>
  /\ head = 0
  /\ metadata = <<>>
  /\ clock = 0
  /\ last = [op |-> "start", ok |-> FALSE, outcome |-> "returned", error |-> "",
             repeat |-> FALSE]
  /\ OthersIdle

\* another process writes, creates or deletes one file of the live directory
ExternalChange ==
  \E p \in Paths, c \in Cell :
    /\ c \in CellOf(p)
    /\ c # wt[p]
    /\ wt' = [wt EXCEPT ![p] = c]
    /\ last' = [op |-> "external", ok |-> FALSE, outcome |-> "returned",
                error |-> "", repeat |-> FALSE]
    /\ UNCHANGED <<index, commits, head, metadata, clock>>
    /\ UNCHANGED others

\* a createCheckpoint call in a healthy environment
CreateCheckpoint ==
  /\ Len(commits) < MaxCommits
  /\ LET r == createCheckpoint(Now, "none")
     IN /\ Becomes(r.state)
        /\ last' = Did("create", r, TRUE)

\* a rollbackCheckpoint call in a healthy environment, with any id
RollbackCheckpoint ==
  \E checkpointId \in IdSpace :
    LET r == rollbackCheckpoint(Now, checkpointId, "none")
    IN /\ Becomes(r.state)
       /\ last' = Did("rollback", r,
                      head = getCheckpoint(metadata, checkpointId).commitHash)

\* a showDiff call in a healthy environment, with any ids
ShowDiff ==
  \E fromCheckpoint \in IdSpace, toCheckpoint \in IdSpace :
    LET r == showDiff(Now, fromCheckpoint, toCheckpoint, "none")
    IN /\ Becomes(r.state)
       /\ last' = Did("diff", r, FALSE)

\* a createCheckpoint call that meets a fault
CreateCheckpointFault ==
  \E fault \in CreateFaults \ {"none"} :
    /\ Len(commits) < MaxCommits
    /\ LET r == createCheckpoint(Now, fault)
       IN /\ Becomes(r.state)
          /\ last' = Did("create", r, FALSE)

\* a rollbackCheckpoint call that meets a fault
RollbackCheckpointFault ==
  \E checkpointId \in IdSpace, fault \in RollbackFaults \ {"none"} :
    LET r == rollbackCheckpoint(Now, checkpointId, fault)
    IN /\ Becomes(r.state)
       /\ last' = Did("rollback", r, FALSE)

Next ==
  \/ ExternalChange
  \/ CreateCheckpoint
  \/ RollbackCheckpoint
  \/ ShowDiff

\* the tools in a healthy environment
Spec == Init /\ [][Next]_vars

NextFaults ==
  \/ ExternalChange
  \/ CreateCheckpoint
  \/ RollbackCheckpoint
  \/ ShowDiff
  \/ CreateCheckpointFault
  \/ RollbackCheckpointFault

\* the tools in an environment that injects faults into createCheckpoint and
\* rollbackCheckpoint
SpecFaults == Init /\ [][NextFaults]_vars

TypeOK ==
  /\ wt \in WorkTrees
  /\ index \in Trees
  /\ head \in 0..Len(commits)
  /\ Len(commits) <= MaxCommits
  /\ Len(metadata) <= Len(commits)
  /\ clock = Len(commits)

(* ---------------------------- concurrent appends ----------------------- *)
(* createCheckpoint calls that overlap: each call is the steps between its *)
(* awaits, and metadata.json is written by fs.writeFile, which truncates   *)
(* the file when it opens it and writes the data after that.               *)

\* torn: metadata.json has been opened for writing and truncated, and no
\* data has been written to it yet; metadata is the list written last.
\* loadMetadata(): the parsed file, and [] when the file does not parse
loadMetadata(file, isTorn) == IF isTorn THEN <<>> ELSE file

\* createCheckpoint up to its addCheckpoint call: the commit, the latest
\* record, the count
BeginCreate(p) ==
  /\ procs[p].pc = "idle"
  /\ Len(commits) < MaxCommits
  /\ LET s1 == [commit(Now) EXCEPT !.clock = clock + 1]
         latestCheckpoint == getLatestCheckpoint(loadMetadata(metadata, torn))
         filesChanged ==
           IF latestCheckpoint # NoRecord
           THEN getDiffCount(s1, latestCheckpoint.commitHash, 0)
           ELSE 1
     IN /\ index' = s1.index
        /\ commits' = s1.commits
        /\ head' = s1.head
        /\ clock' = s1.clock
        /\ procs' = [procs EXCEPT ![p] =
                       [pc |-> "committed", loaded |-> <<>>,
                        checkpoint |-> [id |-> generateId(s1),
                                        timestamp |-> s1.clock,
                                        commitHash |-> s1.head,
                                        filesChanged |-> filesChanged]]]
  /\ UNCHANGED <<wt, metadata, last, torn, listed,
               config, storage, churn, userRepo, preview, reply, filter, stores>>

\* addCheckpoint: const metadata = await this.loadMetadata()
LoadIndex(p) ==
  /\ procs[p].pc = "committed"
  /\ procs' = [procs EXCEPT ![p].pc = "loaded",
                            ![p].loaded = loadMetadata(metadata, torn)]
  /\ UNCHANGED <<wt, index, commits, head, metadata, clock, last, torn, listed,
               config, storage, churn, userRepo, preview, reply, filter, stores>>

\* saveMetadata: fs.writeFile opens metadata.json and truncates it
OpenIndex(p) ==
  /\ procs[p].pc = "loaded"
  /\ procs' = [procs EXCEPT ![p].pc = "writing"]
  /\ torn' = TRUE
  /\ UNCHANGED <<wt, index, commits, head, metadata, clock, last, listed,
               config, storage, churn, userRepo, preview, reply, filter, stores>>

\* saveMetadata: fs.writeFile has written the pushed list; the call returns
WriteIndex(p) ==
  /\ procs[p].pc = "writing"
  /\ metadata' = addCheckpoint(procs[p].loaded, procs[p].checkpoint)
  /\ torn' = FALSE
  /\ procs' = [procs EXCEPT ![p] = IdleProc]
  /\ UNCHANGED <<wt, index, commits, head, clock, last, listed,
               config, storage, churn, userRepo, preview, reply, filter, stores>>

NextIndex ==
  \/ \E p \in Procs : BeginCreate(p)
  \/ \E p \in Procs : LoadIndex(p)
  \/ \E p \in Procs : OpenIndex(p)
  \/ \E p \in Procs : WriteIndex(p)

\* createCheckpoint calls that overlap on one workspace
SpecIndex == Init /\ [][NextIndex]_vars

(* ---------------------------- one call, step by step ------------------- *)
(* One createCheckpoint call at a time, as the steps between its awaits,   *)
(* while the files of the workspace go on changing.                        *)

\* no createCheckpoint call is in flight
NoCallInFlight == \A q \in Procs : procs[q].pc = "idle"

\* const commitHash = await tracker.commit(); then the id and the timestamp
TakeSnapshot(p) ==
  /\ NoCallInFlight
  /\ Len(commits) < MaxCommits
  /\ LET s1 == [commit(Now) EXCEPT !.clock = clock + 1]
     IN /\ index' = s1.index
        /\ commits' = s1.commits
        /\ head' = s1.head
        /\ clock' = s1.clock
        /\ procs' = [procs EXCEPT ![p] =
                       [pc |-> "snapshot", loaded |-> <<>>,
                        checkpoint |-> [id |-> generateId(s1),
                                        timestamp |-> s1.clock,
                                        commitHash |-> s1.head,
                                        filesChanged |-> 0]]]
  /\ UNCHANGED <<wt, metadata, last, torn, listed,
               config, storage, churn, userRepo, preview, reply, filter, stores>>

\* await metadataStore.getLatestCheckpoint(); then, with a latest record,
\* await tracker.getDiffCount(latestCheckpoint.commitHash), which stages the
\* files as they are now and compares against the working tree
CountChanges(p) ==
  /\ procs[p].pc = "snapshot"
  /\ LET latestCheckpoint == getLatestCheckpoint(metadata)
         s2 == IF latestCheckpoint # NoRecord THEN stage(Now) ELSE Now
         filesChanged ==
           IF latestCheckpoint # NoRecord
           THEN getDiffCount(s2, latestCheckpoint.commitHash, 0)
           ELSE 1
     IN /\ index' = s2.index
        /\ procs' = [procs EXCEPT ![p].pc = "counted",
                                  ![p].checkpoint.filesChanged = filesChanged]
  /\ UNCHANGED <<wt, commits, head, metadata, clock, last, torn, listed,
               config, storage, churn, userRepo, preview, reply, filter, stores>>

\* await metadataStore.addCheckpoint({...}); the call returns
RecordCheckpoint(p) ==
  /\ procs[p].pc = "counted"
  /\ metadata' = addCheckpoint(metadata, procs[p].checkpoint)
  /\ procs' = [procs EXCEPT ![p] = IdleProc]
  /\ UNCHANGED <<wt, index, commits, head, clock, last, torn, listed,
               config, storage, churn, userRepo, preview, reply, filter, stores>>

NextSteps ==
  \/ ExternalChange
  \/ \E p \in Procs : TakeSnapshot(p)
  \/ \E p \in Procs : CountChanges(p)
  \/ \E p \in Procs : RecordCheckpoint(p)

\* createCheckpoint calls one after another in a workspace that changes
SpecSteps == Init /\ [][NextSteps]_vars

(* ---------------------------- timeline --------------------------------- *)
(* createCheckpoint under a wall clock that may repeat a reading or step   *)
(* back, and showTimeline.                                                 *)

\* records the index may hold here
MaxRecords == 3

\* readings of the wall clock
MaxTime == 2

\* a createCheckpoint call whose new Date() reads t + 1
ClockCreate ==
  \E t \in 0..(MaxTime - 1) :
    /\ Len(commits) < MaxRecords
    /\ LET r == createCheckpoint([Now EXCEPT !.clock = t], "none")
       IN /\ Becomes(r.state)
          /\ last' = Did("create", r, FALSE)

\* a showTimeline call
ShowTimeline ==
  \E limit \in 0..MaxRecords :
    /\ listed' = showTimeline(metadata, limit)
    /\ last' = [op |-> "timeline", ok |-> TRUE, outcome |-> "returned",
                error |-> "", repeat |-> FALSE]
    /\ UNCHANGED <<wt, index, commits, head, metadata, clock, procs, torn,
               config, storage, churn, userRepo, preview, reply, filter, stores>>

\* a checkpointStatus call
CheckpointStatus ==
  /\ last' = [op |-> "status", ok |-> TRUE, outcome |-> "returned",
              error |-> "", repeat |-> FALSE]
  /\ UNCHANGED <<wt, index, commits, head, metadata, clock>>
  /\ UNCHANGED others

NextTimeline ==
  \/ ClockCreate
  \/ ShowTimeline
  \/ CheckpointStatus

\* checkpoints made under any clock, and their listing
SpecTimeline == Init /\ [][NextTimeline]_vars

(* ---------------------------- workspace and storage -------------------- *)
(* The tools on a configured workspace path: what each validates, the      *)
(* identity it derives and the directories under checkpoints/ it touches.  *)

\* CheckpointConfig.getWorkspacePath
getWorkspacePath(cfg) == resolve(cfg.workspacePath)

\* faulty variant: a directory under a protected one is protected too
validateWorkspacePath_Prefix(workspacePath, accessible) ==
  IF ~accessible THEN "InvalidWorkspace"
  ELSE IF \E q \in protectedPaths :
            /\ Len(q) <= Len(workspacePath)
            /\ SubSeq(workspacePath, 1, Len(q)) = q
  THEN "ProtectedDirectory"
  ELSE ""

\* CheckpointConfig.validateWorkspacePath: the error it throws, "" for none
validateWorkspacePath(workspacePath, accessible) ==
  IF ~accessible THEN "InvalidWorkspace"
  ELSE IF workspacePath \in protectedPaths THEN "ProtectedDirectory"
  ELSE ""

\* faulty variant: the directory comes back with a trailing separator
getWorkingDirectory_TrailingSlash(workspacePath, accessible) ==
  LET cwd == resolve(workspacePath)
  IN IF ~accessible THEN [cwd |-> cwd, error |-> "InvalidWorkspace"]
     ELSE IF cwd \in protectedPaths
     THEN [cwd |-> cwd, error |-> "ProtectedDirectory"]
     ELSE [cwd |-> Append(cwd, ""), error |-> ""]

\* getWorkingDirectory(workspacePath): the directory, or the error thrown
getWorkingDirectory(workspacePath, accessible) ==
  LET cwd == resolve(workspacePath)
  IN IF ~accessible THEN [cwd |-> cwd, error |-> "InvalidWorkspace"]
     ELSE IF cwd \in protectedPaths
     THEN [cwd |-> cwd, error |-> "ProtectedDirectory"]
     ELSE [cwd |-> cwd, error |-> ""]

\* what a tool gives here: the storage it leaves, the error it threw or
\* reported, and the identities it used for the index and for the repository
\* (<<>> when it did not get that far)
PathResult(st, err, indexId, repoId) ==
  [storage |-> st, error |-> err, indexId |-> indexId, repoId |-> repoId]

\* CheckpointTracker.create: getWorkingDirectory, hashWorkingDir,
\* getShadowGitPath (mkdir), initShadowGit
trackerCreate(workspacePath, accessible, st) ==
  LET wd == getWorkingDirectory(workspacePath, accessible)
      cwdHash == hashWorkingDir(PathString(wd.cwd))
  IN IF wd.error # "" THEN PathResult(st, wd.error, <<>>, <<>>)
     ELSE PathResult([st EXCEPT !.dirs = @ \cup {cwdHash},
                                !.repos = @ \cup {cwdHash}],
                     "", <<>>, cwdHash)

\* createCheckpoint on the configured path: validate, the tracker, the
\* commit, the record appended to the index of workspaceInfo.cwdHash
createCheckpointAt(cfg, st) ==
  LET workspacePath == getWorkspacePath(cfg)
      invalid == validateWorkspacePath(workspacePath, cfg.accessible)
      tracker == trackerCreate(workspacePath, cfg.accessible, st)
  IN IF invalid # "" THEN PathResult(st, invalid, <<>>, <<>>)
     ELSE IF tracker.error # "" THEN tracker
     ELSE PathResult([tracker.storage EXCEPT
                        !.dirs = @ \cup {tracker.repoId},
                        !.indexes = @ \cup {tracker.repoId}],
                     "", tracker.repoId, tracker.repoId)

\* showTimeline and checkpointStatus on the configured path: validate, the
\* metadata store of hashWorkingDir(config.workspacePath), loadMetadata
\* (which makes the directory of metadata.json)
readIndexAt(cfg, st) ==
  LET workspacePath == getWorkspacePath(cfg)
      invalid == validateWorkspacePath(workspacePath, cfg.accessible)
      workspaceHash == hashWorkingDir(PathString(workspacePath))
  IN IF invalid # "" THEN PathResult(st, invalid, <<>>, <<>>)
     ELSE PathResult([st EXCEPT !.dirs = @ \cup {workspaceHash}],
                     "", workspaceHash, <<>>)

\* rollbackCheckpoint and showDiff on the configured path: validate, the
\* record looked up in the index of hashWorkingDir(config.workspacePath),
\* then the tracker when that index holds the record
useCheckpointAt(cfg, st) ==
  LET opened == readIndexAt(cfg, st)
      tracker == trackerCreate(getWorkspacePath(cfg), cfg.accessible,
                               opened.storage)
  IN IF opened.error # "" THEN opened
     ELSE IF opened.indexId \notin st.indexes
     THEN PathResult(opened.storage, "CheckpointNotFound", opened.indexId, <<>>)
     ELSE PathResult(tracker.storage, tracker.error, opened.indexId,
                     tracker.repoId)

\* the configured paths
ConfiguredPaths ==
  UNION {[1..n -> Segments] : n \in 0..MaxDepth}

InitPaths ==
  /\ wt = [p \in Paths |-> IF p \in ExcludedPaths THEN "hello" ELSE NoFile]
  /\ index = EmptyTree
  /\ commits = <<>>
  /\ head = 0
  /\ metadata = <<>>
  /\ clock = 0
  /\ last = [op |-> "start", ok |-> FALSE, outcome |-> "returned", error |-> "",
             repeat |-> FALSE]
  /\ procs = [p \in Procs |-> IdleProc]
  /\ torn = FALSE
  /\ listed = <<>>
  /\ config \in [workspacePath : ConfiguredPaths, accessible : BOOLEAN]
  /\ storage = NoStorage
  /\ churn = NoChurn
  /\ userRepo = NoUserCommit
  /\ preview = NoPreview
  /\ reply = NoReply
  /\ filter = NoFilter
  /\ stores = NoStores

\* what a tool call on the configured path leaves in last
PathLast(op, r) ==
  [op |-> op, ok |-> r.error = "",
   outcome |-> IF r.error = "" THEN "returned"
               ELSE IF op = "rollback" /\ r.error = "CheckpointNotFound"
               THEN "returned"
               ELSE "threw",
   error |-> r.error, repeat |-> FALSE]

\* what the tools on the configured path leave alone
pathOthers ==
  <<wt, index, commits, head, metadata, clock, procs, torn, listed, config,
    churn, userRepo, preview, reply, filter, stores>>

\* a createCheckpoint call
PathCreate ==
  /\ storage' = createCheckpointAt(config, storage).storage
  /\ last' = PathLast("create", createCheckpointAt(config, storage))
  /\ UNCHANGED pathOthers

\* a rollbackCheckpoint call
PathRollback ==
  /\ storage' = useCheckpointAt(config, storage).storage
  /\ last' = PathLast("rollback", useCheckpointAt(config, storage))
  /\ UNCHANGED pathOthers

\* a showDiff call
PathDiff ==
  /\ storage' = useCheckpointAt(config, storage).storage
  /\ last' = PathLast("diff", useCheckpointAt(config, storage))
  /\ UNCHANGED pathOthers

\* a showTimeline call
PathTimeline ==
  /\ storage' = readIndexAt(config, storage).storage
  /\ last' = PathLast("timeline", readIndexAt(config, storage))
  /\ UNCHANGED pathOthers

\* a checkpointStatus call
PathStatus ==
  /\ storage' = readIndexAt(config, storage).storage
  /\ last' = PathLast("status", readIndexAt(config, storage))
  /\ UNCHANGED pathOthers

NextPaths ==
  \/ PathCreate
  \/ PathRollback
  \/ PathDiff
  \/ PathTimeline
  \/ PathStatus

\* the tools on any configured workspace path
SpecPaths == InitPaths /\ [][NextPaths]_vars

(* ---------------------------- excluded files --------------------------- *)
(* The tools run one at a time while files come and go in the live         *)
(* directory, among them files the exclusion filter names: one under a     *)
(* dependency directory and one named like the index file.                 *)

\* what each file of the live directory may hold here
ExclusionCell(p) ==
  IF p = "a.txt" THEN {NoFile, "hello"}
  ELSE IF p = "node_modules/x.js" THEN Cell
  ELSE IF p = "metadata.json" THEN {NoFile, "hello"}
  ELSE {NoFile}

\* what a change does to a file
ChangeKind(old, new) ==
  IF old = NoFile THEN "created" ELSE IF new = NoFile THEN "deleted" ELSE "modified"

\* churn after file p went from old to new. churn.kinds holds the kinds of
\* change to node_modules/x.js, and "named-like-index" for a created file
\* named metadata.json, over one interval between checkpoints: the interval
\* that the latest checkpoint closed when churn.sealed, the running one
\* otherwise
Churned(p, old, new) ==
  LET kinds == IF churn.sealed THEN {} ELSE churn.kinds
  IN [kinds |-> IF p = "node_modules/x.js" THEN kinds \cup {ChangeKind(old, new)}
                ELSE IF p = "metadata.json" /\ old = NoFile
                THEN kinds \cup {"named-like-index"}
                ELSE kinds,
      sealed |-> FALSE]

InitExclusion ==
  /\ wt \in {w \in WorkTrees :
               /\ w["a.txt"] \in ExclusionCell("a.txt")
               /\ \A p \in Paths \ {"a.txt"} : w[p] = NoFile}
  /\ index = EmptyTree
  /\ commits = <<>>
  /\ head = 0
  /\ metadata = <<>>
  /\ clock = 0
  /\ last = [op |-> "start", ok |-> FALSE, outcome |-> "returned", error |-> "",
             repeat |-> FALSE]
  /\ OthersIdle

\* somebody creates, edits or deletes a file of the live directory
FileChange ==
  \E p \in Paths : \E c \in ExclusionCell(p) :
    /\ c # wt[p]
    /\ wt' = [wt EXCEPT ![p] = c]
    /\ churn' = Churned(p, wt[p], c)
    /\ last' = [op |-> "external", ok |-> FALSE, outcome |-> "returned",
                error |-> "", repeat |-> FALSE]
    /\ UNCHANGED <<index, commits, head, metadata, clock>>
    /\ UNCHANGED <<procs, torn, listed, config, storage, userRepo, preview, reply, filter, stores>>

\* a createCheckpoint call, which closes the interval churn describes
ExclusionCreate ==
  /\ Len(commits) < MaxCommits
  /\ LET r == createCheckpoint(Now, "none")
     IN /\ Moves(r.state)
        /\ last' = Did("create", r, TRUE)
  /\ churn' = [kinds |-> IF churn.sealed THEN {} ELSE churn.kinds, sealed |-> TRUE]
  /\ UNCHANGED <<procs, torn, listed, config, storage, userRepo, preview, reply, filter, stores>>

NextExclusion ==
  \/ FileChange
  \/ ExclusionCreate
  \/ RollbackCheckpoint
  \/ ShowDiff

SpecExclusion == InitExclusion /\ [][NextExclusion]_vars

(* ---------------------------- the user's repository -------------------- *)
(* The workspace directory is a git repository of the user's own. The     *)
(* tracker runs git there with GIT_DIR naming the shadow repository.       *)

\* the user may commit this many times
MaxUserCommits == 1

\* no GIT_DIR in the environment of a git command
Unset == [root |-> "", identity |-> <<>>, name |-> ""]

\* the .git of the workspace directory
userGitDir == [root |-> "workspace", identity |-> <<>>, name |-> ".git"]

\* faulty variant: one repository for every workspace, that of the first
getShadowGitPath_OneStore(storagePath, cwdHash) ==
  [root |-> storagePath, identity |-> WorkspaceHash, name |-> ".git"]

\* getShadowGitPath(storagePath, taskId, cwdHash):
\* storagePath/checkpoints/cwdHash/.git
getShadowGitPath(storagePath, cwdHash) ==
  [root |-> storagePath, identity |-> cwdHash, name |-> ".git"]

\* faulty variant: simpleGit(this.cwd) with no GIT_DIR
trackerGitEnv_NoGitDir(storagePath, cwdHash) ==
  [baseDir |-> "workspace", GIT_DIR |-> Unset, GIT_WORK_TREE |-> "workspace"]

\* simpleGit(this.cwd, {baseDir: this.cwd}).env('GIT_DIR', gitPath)
\*   .env('GIT_WORK_TREE', this.cwd)
trackerGitEnv(storagePath, cwdHash) ==
  [baseDir |-> "workspace",
   GIT_DIR |-> getShadowGitPath(storagePath, cwdHash),
   GIT_WORK_TREE |-> "workspace"]

\* the repository a git command works on: the one GIT_DIR names, or with no
\* GIT_DIR the .git of the directory the command runs in
gitDirOf(env) ==
  IF env.GIT_DIR # Unset THEN env.GIT_DIR
  ELSE [root |-> env.baseDir, identity |-> <<>>, name |-> ".git"]

\* the repository of the tracker's git commands
trackerGitDir == gitDirOf(trackerGitEnv("storage", WorkspaceHash))

\* the state as the tracker's git commands see it: the repository is the one
\* their environment names
Tracked(S, U) ==
  IF trackerGitDir = userGitDir
  THEN [S EXCEPT !.index = U.index, !.commits = U.commits, !.head = U.head]
  ELSE S

\* the state and the user's repository after a tool call that started in S
\* and U and left r
Settled(S, U, r) ==
  IF trackerGitDir = userGitDir
  THEN [state |-> [r.state EXCEPT !.index = S.index, !.commits = S.commits,
                                  !.head = S.head],
        userRepo |-> [index |-> r.state.index, commits |-> r.state.commits,
                      head |-> r.state.head]]
  ELSE [state |-> r.state, userRepo |-> U]

\* the user commits the files of the workspace to the repository of their
\* own
UserCommit ==
  /\ Len(userRepo.commits) < MaxUserCommits
  /\ LET s1 == commit([Now EXCEPT !.index = userRepo.index,
                                  !.commits = userRepo.commits,
                                  !.head = userRepo.head])
     IN userRepo' = [index |-> s1.index, commits |-> s1.commits, head |-> s1.head]
  /\ last' = [op |-> "user-commit", ok |-> FALSE, outcome |-> "returned",
              error |-> "", repeat |-> FALSE]
  /\ UNCHANGED <<wt, index, commits, head, metadata, clock>>
  /\ UNCHANGED <<procs, torn, listed, config, storage, churn, preview, reply, filter, stores>>

\* a createCheckpoint call in the user's repository directory
UserRepoCreate ==
  /\ Len(commits) < MaxCommits
  /\ LET r == createCheckpoint(Tracked(Now, userRepo), "none")
         out == Settled(Now, userRepo, r)
     IN /\ Moves(out.state)
        /\ userRepo' = out.userRepo
        /\ last' = Did("create", r, TRUE)
  /\ UNCHANGED <<procs, torn, listed, config, storage, churn, preview, reply, filter, stores>>

\* a rollbackCheckpoint call in the user's repository directory
UserRepoRollback ==
  \E checkpointId \in IdsIn(metadata) :
    /\ LET r == rollbackCheckpoint(Tracked(Now, userRepo), checkpointId, "none")
           out == Settled(Now, userRepo, r)
       IN /\ Moves(out.state)
          /\ userRepo' = out.userRepo
          /\ last' = Did("rollback", r, FALSE)
    /\ UNCHANGED <<procs, torn, listed, config, storage, churn, preview, reply, filter, stores>>

\* a showDiff call in the user's repository directory
UserRepoDiff ==
  \E fromCheckpoint \in IdsIn(metadata) :
    /\ LET r == showDiff(Tracked(Now, userRepo), fromCheckpoint, 0, "none")
           out == Settled(Now, userRepo, r)
       IN /\ Moves(out.state)
          /\ userRepo' = out.userRepo
          /\ last' = Did("diff", r, FALSE)
    /\ UNCHANGED <<procs, torn, listed, config, storage, churn, preview, reply, filter, stores>>

NextUserRepo ==
  \/ ExternalChange
  \/ UserCommit
  \/ UserRepoCreate
  \/ UserRepoRollback
  \/ UserRepoDiff

SpecUserRepo == Init /\ [][NextUserRepo]_vars

(* ---------------------------- partial staging -------------------------- *)
(* Some files of the workspace cannot be read while a createCheckpoint     *)
(* call runs, so that git add fails for them.                              *)

\* git add . that goes on after a file it cannot read: the index takes the
\* other eligible files and keeps what it held for the unreadable ones
addCheckpointFilesResult(staged, live, unreadable) ==
  [success |-> \A p \in unreadable : live[p] = NoFile,
   index |-> [p \in EligiblePaths |->
                IF p \in unreadable /\ live[p] # NoFile THEN staged[p] ELSE live[p]]]

\* git diff <commit> against the working tree reads every file the index
\* tracks whose stat data changed, and stops with "cannot hash" at a file it
\* cannot open
diffWorkTreeFails(staged, live, unreadable) ==
  \E p \in unreadable : staged[p] # NoFile /\ live[p] # NoFile

\* commit() when git add fails for the unreadable files: the failure is
\* logged and the commit is made of what the index holds
commitUnreadable(S, unreadable) ==
  LET addFilesResult == addCheckpointFilesResult(S.index, S.wt, unreadable)
  IN [S EXCEPT !.index = addFilesResult.index,
               !.commits = Append(S.commits, addFilesResult.index),
               !.head = Len(S.commits) + 1]

\* createCheckpoint(args) while the unreadable files cannot be read
createCheckpointUnreadable(S, unreadable) ==
  LET s1 == [commitUnreadable(S, unreadable) EXCEPT !.clock = S.clock + 1]
      commitHash == s1.head
      checkpointId == generateId(s1)
      timestamp == s1.clock
      latestCheckpoint == getLatestCheckpoint(s1.metadata)
      filesChanged ==
        IF latestCheckpoint # NoRecord
        THEN getDiffCount(s1, latestCheckpoint.commitHash, 0)
        ELSE 1
  IN IF latestCheckpoint # NoRecord /\ diffWorkTreeFails(s1.index, s1.wt, unreadable)
     THEN Threw(s1, "GitFailed")
     ELSE Returned([s1 EXCEPT !.metadata =
                      addCheckpoint(s1.metadata,
                                    [id |-> checkpointId,
                                     timestamp |-> timestamp,
                                     commitHash |-> commitHash,
                                     filesChanged |-> filesChanged])],
                   TRUE, filesChanged, "", checkpointId)

\* the files that are there to be unreadable
PresentFiles(tree) == {p \in EligiblePaths : tree[p] # NoFile}

\* a createCheckpoint call while some files, or none, cannot be read
StagingCreate ==
  \E unreadable \in SUBSET PresentFiles(wt) :
    /\ Len(commits) < MaxCommits
    /\ LET r == createCheckpointUnreadable(Now, unreadable)
       IN /\ Becomes(r.state)
          /\ last' = Did("create", r, FALSE)

NextStaging ==
  \/ ExternalChange
  \/ StagingCreate
  \/ RollbackCheckpoint

SpecStaging == Init /\ [][NextStaging]_vars

(* ---------------------------- cleanup ----------------------------------- *)
(* Old records are removed from metadata.json. Time is counted in days.    *)

\* the largest maxAgeInDays given
MaxDays == 2

\* metadata.filter(cp => new
\* Date(cp.timestamp) > cutoffDate)
RECURSIVE keepNewer(_, _)
keepNewer(records, cutoffDate) ==
  IF records = <<>> THEN <<>>
  ELSE IF Head(records).timestamp > cutoffDate
  THEN <<Head(records)>> \o keepNewer(Tail(records), cutoffDate)
  ELSE keepNewer(Tail(records), cutoffDate)

\* cleanupOldCheckpoints(maxAgeInDays) when new Date() reads today: the list
\* that is saved and the number returned
cleanupOldCheckpoints(records, today, maxAgeInDays) ==
  LET cutoffDate == today - maxAgeInDays
      filteredMetadata == keepNewer(records, cutoffDate)
  IN [metadata |-> filteredMetadata,
      removed |-> Len(records) - Len(filteredMetadata)]

\* a cleanupOldCheckpoints call, at the time of the newest record or a day
\* later
Cleanup ==
  \E today \in MaxTime..(MaxTime + 1), maxAgeInDays \in 0..MaxDays :
    /\ metadata' = cleanupOldCheckpoints(metadata, today, maxAgeInDays).metadata
    /\ last' = [op |-> "cleanup", ok |-> TRUE, outcome |-> "returned",
                error |-> "", repeat |-> FALSE]
    /\ UNCHANGED <<wt, index, commits, head, clock>>
    /\ UNCHANGED others

NextCleanup ==
  \/ ClockCreate
  \/ Cleanup

SpecCleanup == Init /\ [][NextCleanup]_vars

(* ---------------------------- diff preview ----------------------------- *)
(* A content string is a sequence of characters: "x" for a printable       *)
(* character, LF for the line feed, NUL for the null character and CTL for *)
(* a character of [\x01-\x08\x0E-\x1F\x7F-\xFF].                          *)

LF == "LF"

NUL == "NUL"

CTL == "CTL"

\* maxLines of createPreview
PreviewLines == 5

\* maxLength of createPreview
PreviewLength == 200

\* the share of non-printable characters above which content is binary: one
\* in BinaryShare
BinaryShare == 10

\* the most lines a content has
MaxLines == 7

\* the lengths a line of a content has
Widths == {0, 1, 8, 9, 39, 40, 200, 201}

\* what createPreview returns for no preview
Undefined == <<"undefined">>

\* isBinaryContent(content)
isBinaryContent(content) ==
  IF \E i \in 1..Len(content) : content[i] = NUL THEN TRUE
  ELSE LET nonPrintableCount ==
             Cardinality({i \in 1..Len(content) : content[i] \in {NUL, CTL}})
       IN BinaryShare * nonPrintableCount > Len(content)

\* content.split('\n')
split(content) ==
  LET feeds == {i \in 1..Len(content) : content[i] = LF}
      feed(k) == IF k = 0 THEN 0
                 ELSE IF k > Cardinality(feeds) THEN Len(content) + 1
                 ELSE CHOOSE i \in feeds : Cardinality({j \in feeds : j < i}) = k - 1
  IN [k \in 1..(Cardinality(feeds) + 1) |->
        SubSeq(content, feed(k - 1) + 1, feed(k) - 1)]

\* lines.join('\n')
RECURSIVE join(_)
join(lines) ==
  IF lines = <<>> THEN <<>>
  ELSE IF Len(lines) = 1 THEN lines[1]
  ELSE lines[1] \o <<LF>> \o join(Tail(lines))

\* faulty variant: the ellipsis is added to maxLength characters
truncateText_Longer(text, maxLength) ==
  IF Len(text) <= maxLength THEN text
  ELSE SubSeq(text, 1, maxLength) \o <<".", ".", ".">>

\* truncateText(text, maxLength)
truncateText(text, maxLength) ==
  IF Len(text) <= maxLength THEN text
  ELSE SubSeq(text, 1, maxLength - 3) \o <<".", ".", ".">>

\* "\n... (N more lines)"
moreLinesNote(n) == <<LF, ".", ".", ".", " ", "(", ToString(n), " more lines)">>

\* createPreview(content) with the default maxLines and maxLength
createPreview(content) ==
  IF content = <<>> THEN Undefined
  ELSE IF isBinaryContent(content) THEN <<"[Binary content]">>
  ELSE LET lines == split(content)
           previewLines == SubSeq(lines, 1, Min(PreviewLines, Len(lines)))
           joined == join(previewLines)
           cut == IF Len(joined) > PreviewLength
                  THEN truncateText(joined, PreviewLength) ELSE joined
       IN IF Len(lines) > PreviewLines
          THEN cut \o moreLinesNote(Len(lines) - PreviewLines)
          ELSE cut

\* the contents previewed here: so many lines of so many printable
\* characters each, after so many control characters and maybe a null
\* character
Shapes == [lines : 0..MaxLines, width : Widths, controls : 0..2, nul : BOOLEAN]

\* the content of a shape
TextOf(shape) ==
  (IF shape.nul THEN <<NUL>> ELSE <<>>)
  \o [i \in 1..shape.controls |-> CTL]
  \o join([k \in 1..shape.lines |-> [i \in 1..shape.width |-> "x"]])

InitPreview ==
  /\ wt = [p \in Paths |-> IF p \in ExcludedPaths THEN "hello" ELSE NoFile]
  /\ index = EmptyTree
  /\ commits = <<>>
  /\ head = 0
  /\ metadata = <<>>
  /\ clock = 0
  /\ last = [op |-> "start", ok |-> FALSE, outcome |-> "returned", error |-> "",
             repeat |-> FALSE]
  /\ procs = [p \in Procs |-> IdleProc]
  /\ torn = FALSE
  /\ listed = <<>>
  /\ config = [workspacePath |-> <<"w">>, accessible |-> TRUE]
  /\ storage = NoStorage
  /\ churn = NoChurn
  /\ userRepo = NoUserCommit
  /\ preview \in {[shape |-> shape, out |-> <<"pending">>] : shape \in Shapes}
  /\ reply = NoReply
  /\ filter = NoFilter
  /\ stores = NoStores

\* showDiff makes the preview of one side of a changed file
CreatePreview ==
  /\ preview.out = <<"pending">>
  /\ preview' = [preview EXCEPT !.out = createPreview(TextOf(preview.shape))]
  /\ UNCHANGED <<wt, index, commits, head, metadata, clock, last>>
  /\ UNCHANGED <<procs, torn, listed, config, storage, churn, userRepo, reply, filter, stores>>

NextPreview == CreatePreview

SpecPreview == InitPreview /\ [][NextPreview]_vars

(* ---------------------------- call handler ----------------------------- *)
(* The handler of tool calls: what it gives back for each request.         *)

\* the tools of the switch that work on checkpoints
ToolNames ==
  {"create_checkpoint", "rollback_checkpoint", "show_diff", "show_timeline",
   "checkpoint_status"}

\* requests: a tool name or a name the switch does not know; arguments that
\* are absent, that the schema rejects, or that it accepts; the checkpoint
\* the accepted arguments name
Requests ==
  [name : ToolNames \cup {"no_such_tool"},
   args : {"missing", "invalid", "valid"},
   checkpointId : IdSpace]

\* faults the environment can inject into any tool
HandlerFaults == {"none", "workspace"}

\* the handler returns the result of the tool
ToolResult(S, name) ==
  [state |-> S, reply |-> [kind |-> "result", tool |-> name, error |-> ""]]

\* the catch block of the handler: {error, tool} as the content returned
CaughtError(S, name, err) ==
  [state |-> S, reply |-> [kind |-> "error", tool |-> name, error |-> err]]

\* an error thrown out of the handler
Escaped(S, err) ==
  [state |-> S, reply |-> [kind |-> "thrown", tool |-> "", error |-> err]]

\* what the handler makes of a tool that returned or threw
Answered(name, r) ==
  IF r.res.outcome = "threw" THEN CaughtError(r.state, name, r.res.error)
  ELSE ToolResult(r.state, name)

\* the CallToolRequestSchema handler: the check for arguments, then inside
\* try the switch on the name, the schema's parse and the tool, and the catch
callTool(S, request, fault) ==
  IF request.args = "missing"
  THEN Escaped(S, "NoArguments")
  ELSE IF request.name \notin ToolNames
  THEN CaughtError(S, request.name, "UnknownTool")
  ELSE IF request.args = "invalid"
  THEN CaughtError(S, request.name, "ZodError")
  ELSE IF request.name = "create_checkpoint"
  THEN Answered(request.name, createCheckpoint(S, fault))
  ELSE IF request.name = "rollback_checkpoint"
  THEN Answered(request.name, rollbackCheckpoint(S, request.checkpointId, fault))
  ELSE IF request.name = "show_diff"
  THEN Answered(request.name, showDiff(S, request.checkpointId, 0, fault))
  ELSE IF fault = "workspace"
  THEN CaughtError(S, request.name, "InvalidWorkspace")
  ELSE ToolResult(S, request.name)

\* the server handles one request
CallTool ==
  \E request \in Requests, fault \in HandlerFaults :
    /\ request.name = "create_checkpoint" => Len(commits) < MaxCommits
    /\ LET out == callTool(Now, request, fault)
       IN /\ Moves(out.state)
          /\ reply' = out.reply
    /\ UNCHANGED last
    /\ UNCHANGED <<procs, torn, listed, config, storage, churn, userRepo, preview, filter, stores>>

NextServer ==
  \/ ExternalChange
  \/ CallTool

SpecServer == Init /\ [][NextServer]_vars

(* ---------------------------- exclusion patterns ----------------------- *)
(* matchesPattern on its own: a changed file and an ordered rule set.      *)

\* the most patterns in a rule set
MaxPatterns == 2

\* changed files, as their characters
FilterFiles ==
  {<<"b", "u", "i", "l", "d">>,
   <<"b", "u", "i", "l", "d", "/", "a", ".", "j", "s">>,
   <<"b", "u", "i", "l", "d", "x", "/", "a", ".", "j", "s">>,
   <<"s", "r", "c", "/", "b", "u", "i", "l", "d", "/", "a", ".", "j", "s">>,
   <<"a", ".", "l", "o", "g">>,
   <<"s", "r", "c", "/", "a", ".", "l", "o", "g">>,
   <<"a", ".", "l", "o", "g", ".", "t", "x", "t">>,
   <<".", "e", "n", "v">>,
   <<"s", "r", "c", "/", ".", "e", "n", "v">>,
   <<"x", ".", "e", "n", "v">>,
   <<"n", "p", "m", "-", "d", "e", "b", "u", "g", ".", "l", "o", "g", ".", "1">>,
   <<"n", "p", "m", "-", "d", "e", "b", "u", "g", "x", "l", "o", "g">>,
   <<"(", "*">>,
   <<"(", "a">>}

\* exclusion patterns, as their characters: a directory, an extension, a
\* plain name, a wildcard name, a wildcard whose translation does not
\* compile, a plain path
FilterPatterns ==
  {<<"b", "u", "i", "l", "d", "/">>,
   <<"*", ".", "l", "o", "g">>,
   <<".", "e", "n", "v">>,
   <<"n", "p", "m", "-", "d", "e", "b", "u", "g", ".", "l", "o", "g", "*">>,
   <<"(", "*">>,
   <<"s", "r", "c", "/", ".", "e", "n", "v">>}

\* rule sets in the order they were loaded
RuleSets ==
  UNION {[1..n -> FilterPatterns] : n \in 1..MaxPatterns}

InitPatterns ==
  /\ wt = [p \in Paths |-> IF p \in ExcludedPaths THEN "hello" ELSE NoFile]
  /\ index = EmptyTree
  /\ commits = <<>>
  /\ head = 0
  /\ metadata = <<>>
  /\ clock = 0
  /\ last = [op |-> "start", ok |-> FALSE, outcome |-> "returned", error |-> "",
             repeat |-> FALSE]
  /\ procs = [p \in Procs |-> IdleProc]
  /\ torn = FALSE
  /\ listed = <<>>
  /\ config = [workspacePath |-> <<"w">>, accessible |-> TRUE]
  /\ storage = NoStorage
  /\ churn = NoChurn
  /\ userRepo = NoUserCommit
  /\ preview = NoPreview
  /\ reply = NoReply
  /\ filter \in {[file |-> f, patterns |-> ps, out |-> "pending", by |-> 0] :
                   f \in FilterFiles, ps \in RuleSets}
  /\ stores = NoStores

\* the pattern loop of getActualChangedFiles on one changed file
ApplyPatterns ==
  /\ filter.out = "pending"
  /\ LET r == applyPatterns(filter.file, filter.patterns)
     IN filter' = [filter EXCEPT
                     !.out = IF r.shouldExclude THEN "excluded" ELSE "kept",
                     !.by = r.by]
  /\ UNCHANGED <<wt, index, commits, head, metadata, clock, last>>
  /\ UNCHANGED <<procs, torn, listed, config, storage, churn, userRepo,
                 preview, reply, stores>>

NextPatterns == ApplyPatterns

SpecPatterns == InitPatterns /\ [][NextPatterns]_vars

(* ---------------------------- empty files ------------------------------ *)
(* The tools in a workspace where a file may exist with no content.        *)

\* the environment leaves a.txt in place with no content
WriteEmptyFile ==
  /\ wt["a.txt"] # ""
  /\ wt' = [wt EXCEPT !["a.txt"] = ""]
  /\ last' = [op |-> "external", ok |-> FALSE, outcome |-> "returned",
              error |-> "", repeat |-> FALSE]
  /\ UNCHANGED <<index, commits, head, metadata, clock>>
  /\ UNCHANGED others

NextEmptyFiles ==
  \/ ExternalChange
  \/ WriteEmptyFile
  \/ CreateCheckpoint
  \/ ShowDiff

SpecEmptyFiles == Init /\ [][NextEmptyFiles]_vars

(* ---------------------------- every tool ------------------------------- *)
(* The five tools of the server on one workspace, one call at a time.      *)

NextTools ==
  \/ ExternalChange
  \/ CreateCheckpoint
  \/ RollbackCheckpoint
  \/ ShowDiff
  \/ ShowTimeline
  \/ CheckpointStatus

SpecTools == Init /\ [][NextTools]_vars

(* ---------------------------- several workspaces ----------------------- *)
(* The server started on one workspace after another over one storage      *)
(* root: the files under checkpoints/ that each tool call reads and writes.*)

\* the workspaces the server is started on
Workspaces == {<<"w">>, <<"u", "w">>, <<"w", "w">>}

\* hashWorkingDir of a configured workspace path
identityOf(workspacePath) == hashWorkingDir(PathString(resolve(workspacePath)))

\* CheckpointMetadataStore constructor:
\* storagePath/checkpoints/workspaceHash/metadata.json
metadataFile(storagePath, workspaceHash) ==
  [root |-> storagePath, identity |-> workspaceHash, name |-> "metadata.json"]

\* the content of a file under the storage root, and what a reader gets
\* when there is no such file
readStore(st, file, missing) ==
  IF \E e \in st : e.file = file
  THEN (CHOOSE e \in st : e.file = file).content
  ELSE missing

writeStore(st, file, content) ==
  {e \in st : e.file # file} \cup {[file |-> file, content |-> content]}

\* a shadow repository right after initShadowGit
NoCommits == [commits |-> 0, head |-> 0]

\* createCheckpoint for a workspace: the commit in the repository of its
\* identity, the record pushed to the metadata.json of its identity
createCheckpointIn(st, workspacePath) ==
  LET cwdHash == identityOf(workspacePath)
      gitPath == getShadowGitPath("storage", cwdHash)
      repo == readStore(st, gitPath, NoCommits)
      commitHash == repo.commits + 1
      s1 == writeStore(st, gitPath, [commits |-> commitHash, head |-> commitHash])
      file == metadataFile("storage", cwdHash)
      records == readStore(s1, file, <<>>)
  IN writeStore(s1, file,
                Append(records, [id |-> Len(records) + 1, commitHash |-> commitHash]))

\* rollbackCheckpoint for a workspace: the record found in the metadata.json
\* of its identity, the reset in the repository of its identity
rollbackCheckpointIn(st, workspacePath, checkpointId) ==
  LET workspaceHash == identityOf(workspacePath)
      records == readStore(st, metadataFile("storage", workspaceHash), <<>>)
      gitPath == getShadowGitPath("storage", workspaceHash)
      repo == readStore(st, gitPath, NoCommits)
  IN IF \E i \in 1..Len(records) : records[i].id = checkpointId
     THEN LET targetCheckpoint ==
                records[CHOOSE i \in 1..Len(records) : records[i].id = checkpointId]
          IN [ok |-> TRUE,
              stores |-> writeStore(st, gitPath,
                                    [repo EXCEPT !.head = targetCheckpoint.commitHash])]
     ELSE [ok |-> FALSE, stores |-> st]

\* what the calls for several workspaces leave alone
workspaceOthers ==
  <<wt, index, commits, head, metadata, clock, procs, torn, listed, storage,
    churn, userRepo, preview, reply, filter>>

\* the server is started on another workspace
SwitchWorkspace ==
  \E workspacePath \in Workspaces :
    /\ workspacePath # config.workspacePath
    /\ config' = [config EXCEPT !.workspacePath = workspacePath]
    /\ last' = [op |-> "start", ok |-> TRUE, outcome |-> "returned",
                error |-> "", repeat |-> FALSE]
    /\ UNCHANGED stores
    /\ UNCHANGED workspaceOthers

\* a createCheckpoint call for the workspace the server runs on
WorkspaceCreate ==
  /\ Len(readStore(stores, metadataFile("storage", identityOf(config.workspacePath)),
                   <<>>)) < MaxCommits
  /\ stores' = createCheckpointIn(stores, config.workspacePath)
  /\ last' = [op |-> "create", ok |-> TRUE, outcome |-> "returned",
              error |-> "", repeat |-> FALSE]
  /\ UNCHANGED config
  /\ UNCHANGED workspaceOthers

\* a rollbackCheckpoint call for the workspace the server runs on
WorkspaceRollback ==
  \E checkpointId \in IdSpace :
    LET r == rollbackCheckpointIn(stores, config.workspacePath, checkpointId)
    IN /\ stores' = r.stores
       /\ last' = [op |-> "rollback", ok |-> r.ok, outcome |-> "returned",
                   error |-> IF r.ok THEN "" ELSE "CheckpointNotFound",
                   repeat |-> FALSE]
       /\ UNCHANGED config
       /\ UNCHANGED workspaceOthers

NextWorkspaces ==
  \/ SwitchWorkspace
  \/ WorkspaceCreate
  \/ WorkspaceRollback

SpecWorkspaces == Init /\ [][NextWorkspaces]_vars

(* ---------------------------- claims ----------------------------------- *)

IdsOf(md) == {md[i].id : i \in 1..Len(md)}

\* the snapshot a record points at
SnapshotOf(rec) == commits[rec.commitHash]

\* C1: for every record c, a successful rollback(c.id) followed at once by
\* diff(c.id) against the live directory reports zero changes.
C1_RollbackThenDiffIsEmpty ==
  \A i \in 1..Len(metadata) :
    LET c == metadata[i]
        r == rollbackCheckpoint(Now, c.id, "none")
        d == showDiff(r.state, c.id, 0, "none")
    IN r.res.success => (d.res.success /\ d.res.count = 0)

\* C2: after a successful rollback(c.id) every eligible path of the live
\* directory has the content it had in c's snapshot, and an eligible file the
\* snapshot lacks is gone.
C2_RollbackRestoresSnapshot ==
  \A i \in 1..Len(metadata) :
    LET c == metadata[i]
        r == rollbackCheckpoint(Now, c.id, "none")
    IN r.res.success =>
         \A p \in EligiblePaths : r.state.wt[p] = SnapshotOf(c)[p]

\* C3: rollback(c.id) twice in a row leaves the live directory, and the
\* shadow repository, as one rollback(c.id) leaves them.
C3_RollbackIdempotent ==
  \A i \in 1..Len(metadata) :
    LET c == metadata[i]
        once == rollbackCheckpoint(Now, c.id, "none")
        twice == rollbackCheckpoint(once.state, c.id, "none")
    IN once.res.success =>
         /\ twice.res.success
         /\ twice.state.wt = once.state.wt
         /\ twice.state = once.state

\* C3 witness: a second successful rollback in a row to the same checkpoint,
\* with a newer record in the index.
C3_Witness ==
  /\ last.op = "rollback"
  /\ last.repeat
  /\ Len(metadata) >= 2
  /\ head # metadata[Len(metadata)].commitHash

\* C4: every record with a predecessor carries as filesChanged the number of
\* paths that differ between its snapshot and the predecessor's snapshot.
C4_FilesChangedIsPathDelta ==
  \A i \in 2..Len(metadata) :
    metadata[i].filesChanged =
      Cardinality(DifferingPaths(SnapshotOf(metadata[i - 1]), SnapshotOf(metadata[i])))

\* C5: the first record of the index carries as filesChanged the number of
\* eligible files its snapshot holds.
C5_FirstCountsAllFiles ==
  Len(metadata) >= 1 =>
    metadata[1].filesChanged = Cardinality(FilesOf(SnapshotOf(metadata[1])))

\* C6: in a run of createCheckpoint calls with no file change between them,
\* every record after the first has filesChanged 0: the record of a call that
\* directly follows a successful call, and the second and third record of
\* three calls made in a row from any state.
C6_NoChangeNoCount ==
  /\ (last.op = "create" /\ last.repeat) =>
        metadata[Len(metadata)].filesChanged = 0
  /\ LET first == createCheckpoint(Now, "none")
         second == createCheckpoint(first.state, "none")
         third == createCheckpoint(second.state, "none")
     IN /\ second.res.success /\ second.res.count = 0
        /\ second.state.metadata[Len(second.state.metadata)].filesChanged = 0
        /\ third.res.success /\ third.res.count = 0
        /\ third.state.metadata[Len(third.state.metadata)].filesChanged = 0

\* C6 witness: a createCheckpoint directly after a createCheckpoint whose
\* record counted changes.
C6_Witness ==
  /\ last.op = "create"
  /\ last.repeat
  /\ Len(metadata) >= 2
  /\ metadata[Len(metadata) - 1].filesChanged > 0
  /\ metadata[Len(metadata)].filesChanged = 0

\* C7: a rollback, successful or not, leaves the record list as it was, and a
\* createCheckpoint after it appends exactly one record to that list.
C7_RollbackKeepsRecords ==
  \A checkpointId \in IdSpace, fault \in RollbackFaults :
    LET r == rollbackCheckpoint(Now, checkpointId, fault)
        c == createCheckpoint(r.state, "none")
    IN /\ r.state.metadata = metadata
       /\ c.res.success
       /\ Len(c.state.metadata) = Len(metadata) + 1
       /\ SubSeq(c.state.metadata, 1, Len(metadata)) = metadata
       /\ c.state.metadata[Len(metadata) + 1].id = c.res.checkpointId

\* C7 witness: a successful rollback to an older checkpoint has moved the
\* head back while the newer record is still listed.
C7_Witness ==
  /\ last.op = "rollback"
  /\ last.ok
  /\ Len(metadata) >= 2
  /\ head < metadata[Len(metadata)].commitHash
  /\ \E i \in 1..Len(metadata) : metadata[i].commitHash = head

\* C8: a rollback call returns a result whatever the input and the
\* environment, and a failure result has filesRestored 0.
C8_RollbackNeverThrows ==
  /\ last.op = "rollback" => last.outcome = "returned"
  /\ \A checkpointId \in IdSpace, fault \in RollbackFaults :
       LET r == rollbackCheckpoint(Now, checkpointId, fault)
       IN (r.res.outcome = "returned" /\ ~r.res.success) => r.res.count = 0

\* C9: a rollback with an id the index does not hold fails, with
\* CheckpointNotFound once the workspace path has validated, reports
\* filesRestored 0, and leaves the live directory, the shadow repository and
\* the index as they were.
C9_UnknownIdChangesNothing ==
  /\ (last.op = "rollback" /\ last.error = "CheckpointNotFound") => ~last.ok
  /\ \A checkpointId \in IdSpace \ IdsOf(metadata), fault \in RollbackFaults :
       LET r == rollbackCheckpoint(Now, checkpointId, fault)
       IN /\ r.state = Now
          /\ ~r.res.success
          /\ r.res.count = 0
          /\ fault # "workspace" =>
                (r.res.outcome = "returned" /\ r.res.error = "CheckpointNotFound")

\* C9 witness: a rollback with an unknown id has failed with
\* CheckpointNotFound while the index holds records and the live directory
\* differs from the newest snapshot.
C9_Witness ==
  /\ last.op = "rollback"
  /\ last.error = "CheckpointNotFound"
  /\ metadata # <<>>
  /\ addCheckpointFiles(wt) # SnapshotOf(metadata[Len(metadata)])

\* C10: a createCheckpoint that fails at workspace validation, tracker
\* creation, the commit or the count throws and leaves the index as it was.
C10_FailedCreateKeepsIndex ==
  /\ (last.op = "create" /\ ~last.ok) => last.outcome = "threw"
  /\ \A fault \in CreateFaults \ {"none"} :
       LET r == createCheckpoint(Now, fault)
       IN /\ r.res.outcome = "threw"
          /\ r.state.metadata = metadata

\* C10 witness: a createCheckpoint has thrown after its commit was made, with
\* records in the index and no record for the new commit.
C10_Witness ==
  /\ last.op = "create"
  /\ last.outcome = "threw"
  /\ metadata # <<>>
  /\ Len(commits) > Len(metadata)
  /\ \A i \in 1..Len(metadata) : metadata[i].commitHash # Len(commits)

\* C11: once the createCheckpoint calls that ran at the same time have all
\* completed, the index holds a record for every commit made: both new
\* records and all earlier ones.
C11_ConcurrentAppendsKeepRecords ==
  (\A p \in Procs : procs[p].pc = "idle") =>
    \A h \in 1..Len(commits) :
      \E i \in 1..Len(metadata) : metadata[i].commitHash = h

\* C12: whenever a reader loads the index while an append runs, it gets the
\* full list before that append or the full list after it, never an empty or
\* truncated one.
C12_ReaderSeesWholeIndex ==
  \/ loadMetadata(metadata, torn) = metadata
  \/ \E p \in Procs :
       /\ procs[p].pc = "writing"
       /\ loadMetadata(metadata, torn) =
            addCheckpoint(procs[p].loaded, procs[p].checkpoint)

\* the place of the record with this id in a list, 0 when it is not there
PlaceOf(md, id) ==
  IF \E i \in 1..Len(md) : md[i].id = id
  THEN CHOOSE i \in 1..Len(md) : md[i].id = id
  ELSE 0

\* L holds the records of md, newest timestamp first, and records of one
\* timestamp in the order md holds them
SortedDescStable(L, md) ==
  /\ Len(L) = Len(md)
  /\ \A i \in 1..Len(md) : \E j \in 1..Len(L) : L[j] = md[i]
  /\ \A i, j \in 1..Len(L) :
       i < j =>
         /\ L[i].timestamp >= L[j].timestamp
         /\ L[i].timestamp = L[j].timestamp =>
              PlaceOf(md, L[i].id) < PlaceOf(md, L[j].id)

\* C13: the descending list holds every record of the index, sorted by
\* timestamp from newest to oldest whatever the order in storage, records of
\* equal timestamp in their insertion order; what showTimeline returned is
\* sorted the same way.
C13_ListSortedDescStable ==
  /\ SortedDescStable(getAllCheckpoints(metadata), metadata)
  /\ \A i, j \in 1..Len(listed) :
       i < j =>
         /\ listed[i].timestamp >= listed[j].timestamp
         /\ listed[i].timestamp = listed[j].timestamp =>
              listed[i].id < listed[j].id

\* C13 witness: showTimeline has listed three records whose storage order is
\* not the descending order, two of them with the same timestamp.
C13_Witness ==
  /\ last.op = "timeline"
  /\ Len(listed) = 3
  /\ Len(metadata) = 3
  /\ listed # metadata
  /\ \E i \in 1..2 : listed[i].timestamp = listed[i + 1].timestamp
  /\ \E i \in 1..2 : metadata[i].timestamp < metadata[i + 1].timestamp

\* C14: after any sequence of createCheckpoint and rollbackCheckpoint calls,
\* every record of the index points at a snapshot that exists, and a rollback
\* to it succeeds and leaves the eligible content of the live directory equal
\* to that snapshot.
C14_EveryCheckpointRestorable ==
  \A i \in 1..Len(metadata) :
    LET c == metadata[i]
        r == rollbackCheckpoint(Now, c.id, "none")
    IN /\ c.commitHash \in 1..Len(commits)
       /\ r.res.success
       /\ r.state.head = c.commitHash
       /\ addCheckpointFiles(r.state.wt) = SnapshotOf(c)

\* C15: createCheckpoint fails with ProtectedDirectory exactly when the
\* workspace is accessible and its resolved path is the home directory or
\* its Desktop, Documents or Downloads folder (a directory nested under one
\* of them is accepted), and a call that fails so leaves the storage as it
\* was: no directory, repository or index is made.
C15_ProtectedExactlyAndUntouched ==
  LET canonical == resolve(config.workspacePath)
      r == createCheckpointAt(config, storage)
  IN /\ (r.error = "ProtectedDirectory") <=>
          /\ config.accessible
          /\ canonical \in {<<"u">>, <<"u", "Desktop">>, <<"u", "Documents">>,
                            <<"u", "Downloads">>}
     /\ r.error = "ProtectedDirectory" => r.storage = storage
     /\ (last.op = "create" /\ last.error = "ProtectedDirectory") =>
          storage = NoStorage

\* C15 witness: createCheckpoint has failed with ProtectedDirectory for a
\* configured path that is not written in its resolved form.
C15_Witness ==
  /\ last.op = "create"
  /\ last.error = "ProtectedDirectory"
  /\ config.workspacePath # resolve(config.workspacePath)
  /\ Len(resolve(config.workspacePath)) = 2

\* other spellings of a configured path
Respellings(path) ==
  {path, Append(path, ""), Append(path, "."), <<"">> \o path}

\* C16: every spelling of a path gives the identity of its resolved form, and
\* createCheckpoint, rollbackCheckpoint, showDiff, showTimeline and
\* checkpointStatus all use that one identity for the index and for the
\* repository, so that at most one directory under checkpoints/ is touched.
C16_OneIdentityEverywhere ==
  LET made == createCheckpointAt(config, storage)
      used == useCheckpointAt(config, made.storage)
      read == readIndexAt(config, made.storage)
      identity == hashWorkingDir(PathString(resolve(config.workspacePath)))
  IN /\ made.error = "" =>
          /\ used.error = ""
          /\ {made.indexId, made.repoId, used.indexId, used.repoId,
               read.indexId} = {identity}
          /\ used.storage.dirs = {identity}
          /\ used.storage.repos = {identity}
          /\ used.storage.indexes = {identity}
          /\ \A path \in Respellings(config.workspacePath) :
               createCheckpointAt([config EXCEPT !.workspacePath = path],
                                  storage).indexId = identity
     /\ Cardinality(storage.dirs) <= 1
     /\ storage.repos \subseteq storage.dirs
     /\ storage.indexes \subseteq storage.dirs

\* C16 witness: a rollbackCheckpoint call has found the index and the
\* repository a createCheckpoint call made, for a configured path that is not
\* written in its resolved form.
C16_Witness ==
  /\ last.op = "rollback"
  /\ last.ok
  /\ storage.indexes # {}
  /\ storage.repos = storage.indexes
  /\ config.workspacePath # resolve(config.workspacePath)

\* C17: the identity of every workspace path is a string of 13 decimal
\* digits.
C17_IdentityHas13Digits ==
  LET identity == hashWorkingDir(PathString(getWorkspacePath(config)))
  IN /\ Len(identity) = 13
     /\ \A i \in 1..Len(identity) : identity[i] \in 0..9

\* files of the live directory that a default exclusion pattern names: one
\* under the dependency directory, one with the log extension
DefaultExcludedFiles == {"node_modules/x.js", "debug.log"}

\* files of the live directory that carry the name of the storage directory
\* or of the index file
InternalFiles == {"metadata.json", ".mcp-checkpoint/x"}

\* file p is left out of everything the tools do: no stored snapshot and no
\* staged tree holds it, and whatever p holds (nothing, or either content),
\* each tool returns the same result and count and leaves the same state,
\* p itself untouched
LeftOut(p) ==
  /\ p \notin DOMAIN index
  /\ \A i \in 1..Len(commits) : p \notin DOMAIN commits[i]
  /\ \A i \in 1..Len(commits) :
       p \notin DifferingPaths(commits[i], WorkTreeSide(addCheckpointFiles(wt), wt))
  /\ \A c \in Cell :
       LET Alt == [Now EXCEPT !.wt[p] = c]
           Same(r, rAlt) ==
             /\ rAlt.res = r.res
             /\ rAlt.state = [r.state EXCEPT !.wt[p] = c]
       IN /\ Same(createCheckpoint(Now, "none"), createCheckpoint(Alt, "none"))
          /\ \A id \in IdSpace :
               Same(rollbackCheckpoint(Now, id, "none"),
                    rollbackCheckpoint(Alt, id, "none"))
          /\ \A from \in IdSpace, to \in IdSpace :
               Same(showDiff(Now, from, to, "none"), showDiff(Alt, from, to, "none"))

C20_EmptySnapshotGetsNewRef ==
  LET snap == commit(Now)
      r == createCheckpoint(Now, "none")
  IN /\ snap.head # head
     /\ snap.head \notin 1..Len(commits)
     /\ \A i \in 1..Len(metadata) : metadata[i].commitHash # snap.head
     /\ SubSeq(snap.commits, 1, Len(commits)) = commits
     /\ Len(snap.commits) = Len(commits) + 1
     /\ snap.commits[snap.head] = addCheckpointFiles(wt)
     /\ r.res.success
     /\ r.state.head = snap.head
     /\ r.state.commits = snap.commits
     /\ Len(r.state.metadata) = Len(metadata) + 1
     /\ SubSeq(r.state.metadata, 1, Len(metadata)) = metadata
     /\ r.state.metadata[Len(metadata) + 1].commitHash = snap.head

\* C20 witness: two createCheckpoint calls in a row with no file changed in
\* between: the second snapshot holds what the first holds, has its own ref,
\* is HEAD, and the second record carries it.
C20_Witness ==
  /\ last.op = "create" /\ last.repeat
  /\ Len(commits) = 2
  /\ commits[2] = commits[1]
  /\ head = 2
  /\ Len(metadata) = 2
  /\ metadata[1].commitHash = 1
  /\ metadata[2].commitHash = 2
  /\ metadata[2].filesChanged = 0

\* C21: for every snapshot against every snapshot, and for every snapshot
\* against the live directory, getDiffCount gives the number of distinct
\* paths in the array getDiffSet returns in the same state.
C21_DiffCountIsDiffSize ==
  LET s1 == stage(Now)
  IN \A lhsHash \in 1..Len(commits), rhsHash \in 0..Len(commits) :
       getDiffCount(s1, lhsHash, rhsHash) =
         Cardinality({e.relativePath : e \in getDiffSetEntries(s1, lhsHash, rhsHash)})

\* C21 witness: showDiff has run, and against the live directory one snapshot
\* shows a rename and the other a plain change.
C21_Witness ==
  /\ last.op = "diff" /\ last.ok
  /\ Len(commits) = 2
  /\ RenamePairs(commits[1], WorkTreeSide(index, wt)) = 1
  /\ getDiffCount(Now, 2, 0) = 1
  /\ RenamePairs(commits[2], WorkTreeSide(index, wt)) = 0

\* C22: getDiffSet(lhsHash) with no second commit lists every eligible file
\* whose live content differs from the snapshot (modified, deleted, or new),
\* under its path, with the content of each side and "" for the side that
\* lacks the file.
C22_DiffAgainstLiveListsEveryFile ==
  LET s1 == stage(Now)
  IN \A lhsHash \in 1..Len(commits) :
       \A p \in EligiblePaths :
         commits[lhsHash][p] # wt[p] =>
           \E e \in getDiffSetEntries(s1, lhsHash, 0) :
             /\ e.relativePath = <<p>>
             /\ e.before = (IF commits[lhsHash][p] = NoFile THEN ""
                            ELSE commits[lhsHash][p])
             /\ e.after = (IF wt[p] = NoFile THEN "" ELSE wt[p])

\* C23: the tracker's git commands work on the repository under the storage
\* root that carries the identity of the workspace, never on the .git of the
\* workspace directory, and createCheckpoint, rollbackCheckpoint and showDiff
\* leave the user's own repository (its commits, its HEAD, its index) as it
\* was.
C23_UserRepositoryUntouched ==
  /\ Settled(Now, userRepo,
             createCheckpoint(Tracked(Now, userRepo), "none")).userRepo = userRepo
  /\ trackerGitDir = [root |-> "storage", identity |-> WorkspaceHash, name |-> ".git"]
  /\ trackerGitDir # userGitDir
  /\ \A id \in IdsIn(metadata) :
       /\ Settled(Now, userRepo,
                  rollbackCheckpoint(Tracked(Now, userRepo), id, "none")).userRepo
            = userRepo
       /\ Settled(Now, userRepo,
                  showDiff(Tracked(Now, userRepo), id, 0, "none")).userRepo = userRepo

\* C23 witness: a rollbackCheckpoint call has succeeded and moved the shadow
\* HEAD back while the user's repository holds a commit of its own, which is
\* not the snapshot rolled back to.
C23_Witness ==
  /\ last.op = "rollback" /\ last.ok
  /\ Len(commits) = 2
  /\ head = 1
  /\ userRepo.head = 1
  /\ userRepo.commits[1] # commits[1]

\* C24: at most one tool call is under way on the workspace at any time: a
\* call is accepted only when the call before it has run to its end.
C24_OneCallAtATime ==
  Cardinality({p \in Procs : procs[p].pc # "idle"}) <= 1

\* C25: when git add fails for some files, createCheckpoint still succeeds:
\* a new snapshot is made that holds every file that could be staged, and a
\* record carrying its ref is appended.
C25_PartialStagingStillCheckpoints ==
  \A unreadable \in SUBSET PresentFiles(wt) :
    unreadable # {} =>
      LET r == createCheckpointUnreadable(Now, unreadable)
      IN /\ r.res.success
         /\ Len(r.state.commits) = Len(commits) + 1
         /\ \A p \in EligiblePaths \ unreadable :
              r.state.commits[r.state.head][p] = wt[p]
         /\ Len(r.state.metadata) = Len(metadata) + 1
         /\ r.state.metadata[Len(metadata) + 1].commitHash = r.state.head

\* the records of md that are not older than the cutoff, in their order
RECURSIVE NotOlderThan(_, _)
NotOlderThan(md, cutoff) ==
  IF md = <<>> THEN <<>>
  ELSE IF Head(md).timestamp >= cutoff
  THEN <<Head(md)>> \o NotOlderThan(Tail(md), cutoff)
  ELSE NotOlderThan(Tail(md), cutoff)

\* C26: cleanupOldCheckpoints(days) removes the records whose timestamp is
\* before today - days and no other (a record dated exactly today - days
\* stays), and returns how many it removed.
C26_CleanupRemovesOlderOnly ==
  \A today \in MaxTime..(MaxTime + 1), maxAgeInDays \in 0..MaxDays :
    LET r == cleanupOldCheckpoints(metadata, today, maxAgeInDays)
    IN /\ r.metadata = NotOlderThan(metadata, today - maxAgeInDays)
       /\ r.removed = Len(metadata) - Len(r.metadata)

\* the number of lines of a content: one more than its line feeds
LineCount(content) ==
  Cardinality({i \in 1..Len(content) : content[i] = LF}) + 1

\* the first five lines of a content: the content before its fifth line
\* feed, or all of it
FirstFiveLines(content) ==
  LET feeds == {i \in 1..Len(content) : content[i] = LF}
      fifth == {i \in feeds : Cardinality({j \in feeds : j < i}) = 4}
  IN IF fifth = {} THEN content
     ELSE SubSeq(content, 1, (CHOOSE i \in fifth : TRUE) - 1)

\* a content counts as binary
LooksBinary(content) ==
  \/ \E i \in 1..Len(content) : content[i] = NUL
  \/ 10 * Cardinality({i \in 1..Len(content) : content[i] = CTL}) > Len(content)

\* C27: the preview of an empty content is nothing; of a binary content
\* (a null character, or more than one character in ten non-printable) the
\* placeholder; of any other content its first 5 lines, as they are when
\* they have at most 200 characters and else their first 197 characters and
\* "...", 200 in all, followed by the "(N more lines)" note with N = number
\* of lines - 5 exactly when the content has more than 5 lines.
C27_PreviewContract ==
  preview.out # <<"pending">> =>
    LET content == TextOf(preview.shape)
        first == FirstFiveLines(content)
        more == LineCount(content) - 5
        note == IF more > 0 THEN moreLinesNote(more) ELSE <<>>
        body == SubSeq(preview.out, 1, Len(preview.out) - Len(note))
    IN IF content = <<>> THEN preview.out = Undefined
       ELSE IF LooksBinary(content) THEN preview.out = <<"[Binary content]">>
       ELSE /\ Len(body) <= 200
            /\ Len(first) <= 200 => body = first
            /\ Len(first) > 200 =>
                 body = SubSeq(first, 1, 197) \o <<".", ".", ".">>
            /\ preview.out = body \o note
            /\ more <= 0 => preview.out = body

\* C27 witness: the preview was made of a text content of more than 5 lines
\* whose first 5 lines have more than 200 characters, one of them a control
\* character.
C27_Witness ==
  /\ preview.out # <<"pending">>
  /\ ~LooksBinary(TextOf(preview.shape))
  /\ preview.shape.controls = 1
  /\ LineCount(TextOf(preview.shape)) > 5
  /\ Len(FirstFiveLines(TextOf(preview.shape))) > 200

\* C28: no error leaves the handler as a thrown error: a request whose tool
\* fails, whose arguments the schema rejects or are absent, or whose tool
\* name is unknown gets the {error, tool} answer with its tool name, and the
\* handler answers the request after it too.
C28_HandlerAnswersEveryFailure ==
  /\ reply.kind # "thrown"
  /\ \A request \in Requests, fault \in HandlerFaults :
       LET out == callTool(Now, request, fault)
       IN /\ out.reply.kind \in {"result", "error"}
          /\ out.reply.tool = request.name
          /\ (request.name \notin ToolNames \/ request.args # "valid") =>
               out.reply.kind = "error"
          /\ \A later \in Requests :
               callTool(out.state, later, "none").reply.kind \in {"result", "error"}

\* C29: showTimeline with a limit of 0 or more gives the first min(limit, n)
\* records of the list sorted newest first, n being the number of records,
\* and with no limit the first min(20, n).
C29_TimelineHonoursLimit ==
  LET all == getAllCheckpoints(metadata)
      n == Len(all)
  IN /\ showTimelineArgs(metadata, Omitted) = SubSeq(all, 1, Min(20, n))
     /\ \A limit \in 0..MaxRecords :
          showTimelineArgs(metadata, limit) = SubSeq(all, 1, Min(limit, n))

\* C30: the filesChanged a createCheckpoint call is about to store, when a
\* record came before, is the count between the snapshot of that previous
\* record and the snapshot the call has just taken.
C30_CountIsBetweenSnapshots ==
  \A p \in Procs :
    procs[p].pc = "counted" /\ metadata # <<>> =>
      procs[p].checkpoint.filesChanged =
        getDiffCount(Now, getLatestCheckpoint(metadata).commitHash,
                     procs[p].checkpoint.commitHash)

\* C31: a rollback to a recorded checkpoint reports the count between the
\* target's snapshot and the latest record's snapshot when the latest record
\* is not the target, and 0 when it is; whatever the count, the store is
\* reset to the target's snapshot.
C31_FilesRestoredOnlyReports ==
  \A checkpointId \in IdsIn(metadata) :
    LET targetCheckpoint == getCheckpoint(metadata, checkpointId)
        latest == getLatestCheckpoint(metadata)
        r == rollbackCheckpoint(Now, checkpointId, "none")
    IN /\ r.res.success
       /\ r.res.count =
            IF latest.id # checkpointId
            THEN getDiffCount(Now, targetCheckpoint.commitHash, latest.commitHash)
            ELSE 0
       /\ r.state.head = targetCheckpoint.commitHash
       /\ r.state.index = commits[targetCheckpoint.commitHash]

\* a rollback has reset the store to a target that is not the latest record
\* and whose snapshot equals the latest one, so that its count was 0
C31_Witness ==
  /\ last.op = "rollback" /\ last.ok
  /\ metadata # <<>>
  /\ head # getLatestCheckpoint(metadata).commitHash
  /\ commits[head] = commits[getLatestCheckpoint(metadata).commitHash]

\* the directory a pattern with a trailing slash names
DirectoryOf(pattern) == SubSeq(pattern, 1, Len(pattern) - 1)

\* the part of a path after its last slash, the path itself without one
LastPart(path) ==
  CHOOSE part \in {SubSeq(path, k + 1, Len(path)) : k \in 0..Len(path)} :
    /\ \A i \in 1..Len(part) : part[i] # "/"
    /\ \/ Len(part) = Len(path)
       \/ path[Len(path) - Len(part)] = "/"

\* the match a pattern should give on a path, by the kind of the pattern
ShouldMatch(path, pattern) ==
  IF pattern[Len(pattern)] = "/"
  THEN \/ path = DirectoryOf(pattern)
       \/ \E k \in 1..Len(path) : SubSeq(path, 1, k) = DirectoryOf(pattern) \o <<"/">>
  ELSE IF Len(pattern) >= 2 /\ pattern[1] = "*" /\ pattern[2] = "."
  THEN \E k \in 0..Len(path) : SubSeq(path, k + 1, Len(path)) = Tail(pattern)
  ELSE IF \E i \in 1..Len(pattern) : pattern[i] = "*"
  THEN IF regexCompiles(starsToRegex(pattern))
       THEN regexTest(starsToRegex(pattern), path)
       ELSE path = pattern
  ELSE path = pattern \/ (LastPart(path) # <<>> /\ LastPart(path) = pattern)

\* C32: a file run through an ordered rule set is excluded exactly when some
\* pattern should match it (a directory pattern: the directory or a path
\* under it; a "*." pattern: the suffix; a wildcard pattern: its regular
\* expression, or equality when that does not compile; any other: the full
\* path or the base name), and the pattern that excludes it is the first
\* such pattern in the order loaded.
C32_PatternsMatchByKind ==
  filter.out # "pending" =>
    LET hits == {i \in 1..Len(filter.patterns) :
                   ShouldMatch(filter.file, filter.patterns[i])}
    IN /\ (filter.out = "excluded") <=> (hits # {})
       /\ filter.by \in hits \cup {0}
       /\ \A i \in hits : filter.by # 0 /\ filter.by <= i

\* a file under a directory was excluded by a plain pattern that names its
\* base name, the second pattern of a rule set whose first does not match
C32_Witness ==
  /\ filter.out = "excluded"
  /\ filter.by = 2
  /\ filter.file = <<"s", "r", "c", "/", ".", "e", "n", "v">>
  /\ filter.patterns[2] = <<".", "e", "n", "v">>

\* C33: checkpointStatus reports as totalCheckpoints the number of records
\* of the index and as currentCheckpoint the latest record, which no record
\* is newer than; currentCheckpoint is absent exactly when the index is
\* empty.
C33_StatusReportsLatest ==
  LET status == checkpointStatus(metadata)
      latest == getLatestCheckpoint(metadata)
  IN /\ status.totalCheckpoints = Len(metadata)
     /\ (status.currentCheckpoint = <<>>) <=> (metadata = <<>>)
     /\ metadata # <<>> =>
          /\ status.currentCheckpoint = <<latest.id, latest.timestamp>>
          /\ \A i \in 1..Len(metadata) :
               metadata[i].timestamp <= status.currentCheckpoint[2]

\* checkpointStatus has run on an index whose latest record is not the one
\* stored first
C33_Witness ==
  /\ last.op = "status"
  /\ Len(metadata) >= 2
  /\ metadata[1].timestamp < getLatestCheckpoint(metadata).timestamp

\* C34: in the entries showDiff gives for one path, changeType is "added"
\* exactly when the from side has no such file, "deleted" exactly when the
\* to side has none, and "modified" exactly when both sides have the file,
\* an empty file included.
C34_ChangeTypeFollowsExistence ==
  LET s1 == stage(Now)
  IN \A from \in IdsIn(metadata), to \in IdsIn(metadata) \cup {0} :
       LET lhsHash == getCheckpoint(metadata, from).commitHash
           rhsHash == IF to = 0 THEN 0 ELSE getCheckpoint(metadata, to).commitHash
           toSide == IF to = 0 THEN s1.wt ELSE commits[rhsHash]
       IN \A e \in showDiffChanges(getDiffSetEntries(s1, lhsHash, rhsHash)) :
            Len(e.relativePath) = 1 =>
              LET p == e.relativePath[1]
              IN /\ (e.changeType = "added") <=> (commits[lhsHash][p] = NoFile)
                 /\ (e.changeType = "deleted") <=> (toSide[p] = NoFile)
                 /\ (e.changeType = "modified") <=>
                      (commits[lhsHash][p] # NoFile /\ toSide[p] # NoFile)

\* C35: as long as the clock never steps back from one record to the next,
\* equal readings included, the record createCheckpoint takes as the
\* previous one, getLatestCheckpoint(), is the record appended last.
C35_PreviousIsLastAppended ==
  (/\ metadata # <<>>
   /\ \A i \in 1..(Len(metadata) - 1) :
        metadata[i].timestamp <= metadata[i + 1].timestamp)
    => getLatestCheckpoint(metadata) = metadata[Len(metadata)]

\* C36: a step of createCheckpoint, showDiff, showTimeline or
\* checkpointStatus leaves every file of the live directory as it was, and a
\* step of showDiff, showTimeline, checkpointStatus or rollbackCheckpoint
\* leaves the record list as it was.
C36_ToolsKeepTheirFrame ==
  [][/\ last'.op \in {"create", "diff", "timeline", "status"} => wt' = wt
     /\ last'.op \in {"diff", "timeline", "status", "rollback"} =>
          metadata' = metadata]_vars

\* a showDiff has answered while the live directory holds changes that no
\* snapshot has
C36_Witness ==
  /\ last.op = "diff" /\ last.ok
  /\ \A h \in 1..Len(commits) : \E p \in EligiblePaths : wt[p] # commits[h][p]

\* C37: a createCheckpoint that succeeds leaves the earlier records in place
\* and one record more, and getCheckpoint of the id it returned gives a
\* record with the timestamp, the filesChanged and the commit hash it
\* returned.
C37_CreateAppendsWhatItReturns ==
  LET r == createCheckpoint(Now, "none")
      after == r.state.metadata
      stored == getCheckpoint(after, r.result.checkpointId)
  IN /\ r.res.success
     /\ Len(after) = Len(metadata) + 1
     /\ \A i \in 1..Len(metadata) : after[i] = metadata[i]
     /\ \A id \in IdsIn(metadata) :
          getCheckpoint(after, id) = getCheckpoint(metadata, id)
     /\ stored # NoRecord
     /\ stored.id = r.result.checkpointId
     /\ stored.timestamp = r.result.timestamp
     /\ stored.filesChanged = r.result.filesChanged
     /\ stored.commitHash = r.result.commitHash

\* a createCheckpoint has succeeded on an index that held a record already
C37_Witness ==
  /\ last.op = "create" /\ last.ok
  /\ Len(metadata) >= 2
  /\ getCheckpoint(metadata, metadata[Len(metadata)].id) = metadata[Len(metadata)]

\* C38: a step of a tool running for one workspace adds, removes and changes
\* no file under the storage root that carries the identity of another
\* workspace, neither its records nor its repository.
C38_WorkspacesIsolated ==
  [][LET h == identityOf(config.workspacePath)
     IN {e \in stores' : e.file.identity # h} =
        {e \in stores : e.file.identity # h}]_vars

\* a rollback has moved the head of one workspace back while another
\* workspace holds records of its own, its head at its last commit
C38_Witness ==
  /\ last.op = "rollback" /\ last.ok
  /\ \E e \in stores, f \in stores :
       /\ e.file.name = ".git" /\ f.file.name = ".git"
       /\ e.file.identity = identityOf(config.workspacePath)
       /\ f.file.identity # e.file.identity
       /\ e.content.head < e.content.commits
       /\ f.content.commits >= 1
       /\ f.content.head = f.content.commits

\* C39: in every reachable state each record of the index carries a commit
\* hash that is not empty and names a commit of the shadow repository; the
\* repository may hold commits no record names.
C39_EveryRecordHasItsSnapshot ==
  \A i \in 1..Len(metadata) :
    /\ metadata[i].commitHash # 0
    /\ metadata[i].commitHash \in 1..Len(commits)

\* a createCheckpoint failed after its commit: the repository holds a commit
\* that no record names, next to a record that names its own
C39_Witness ==
  /\ last.op = "create" /\ ~last.ok
  /\ metadata # <<>>
  /\ \E h \in 1..Len(commits) :
       \A i \in 1..Len(metadata) : metadata[i].commitHash # h

====
